---- MODULE Spec2Model ----
(***************************************************************************)
(* Model of the tariff-lookup and household-eligibility engine of          *)
(* src/data_processor_gui.py (DataProcessorApp._apply_business_logic and   *)
(* the stages it calls).                                                   *)
(*                                                                         *)
(* Text is modelled as a sequence of one-character strings, so that        *)
(* lower-casing, stripping, splitting and substring search are computed    *)
(* and not assumed.  A missing cell (pandas NaN) is the one-element        *)
(* sequence NULL, which no text of the model contains.                     *)
(***************************************************************************)
EXTENDS Integers, Sequences, FiniteSets, TLC

(***************************************************************************)
(* Text helpers (Python str methods used by the source).                   *)
(***************************************************************************)
NULL == <<"<NaN>">>

IsNull(v) == v = NULL

\* A function, or a sequence, as a value computed once: TLC otherwise computes
\* f[x] anew at every use of a function written [x \in S |-> e].
Eval(f) == f @@ <<>>

EvalSeq(q) == q \o <<>>

\* A local name for a value: F applied to v, with v computed once.
With(v, F(_)) == F(v)

UpperAlpha ==
  <<"A","B","C","D","E","F","G","H","I","J","K","L","M","N","O","P","Q","R",
    "S","T","U","V","W","X","Y","Z","Á","É","Í","Ó","Ú","Ñ">>

LowerAlpha ==
  <<"a","b","c","d","e","f","g","h","i","j","k","l","m","n","o","p","q","r",
    "s","t","u","v","w","x","y","z","á","é","í","ó","ú","ñ">>

\* str.lower() / str.casefold() on one character of the alphabet above.
LowerMap ==
  [c \in {UpperAlpha[i] : i \in 1..Len(UpperAlpha)} |->
     LowerAlpha[CHOOSE i \in 1..Len(UpperAlpha) : UpperAlpha[i] = c]]

LowerChar(c) == IF c \in DOMAIN LowerMap THEN LowerMap[c] ELSE c

Lower(s) == EvalSeq([i \in 1..Len(s) |-> LowerChar(s[i])])

CaseFold(s) == Lower(s)

RECURSIVE LStrip(_)
LStrip(s) == IF s # <<>> /\ Head(s) = " " THEN LStrip(Tail(s)) ELSE s

RECURSIVE RStrip(_)
RStrip(s) ==
  IF s # <<>> /\ s[Len(s)] = " " THEN RStrip(SubSeq(s, 1, Len(s) - 1)) ELSE s

Strip(s) == RStrip(LStrip(s))

\* Python's `sub in s`.
Contains(s, sub) ==
  \E i \in 0..(Len(s) - Len(sub)) : SubSeq(s, i + 1, i + Len(sub)) = sub

\* s.replace(a, b) for a one-character a; b is a text (possibly empty).
RECURSIVE Replace(_, _, _)
Replace(s, a, b) ==
  IF s = <<>> THEN <<>>
  ELSE (IF Head(s) = a THEN b ELSE <<Head(s)>>) \o Replace(Tail(s), a, b)

Count(s, c) == Cardinality({i \in 1..Len(s) : s[i] = c})

\* s.split(","): the parts between commas, always at least one part.
RECURSIVE SplitFrom(_, _, _)
SplitFrom(s, c, acc) ==
  IF s = <<>> THEN <<acc>>
  ELSE IF Head(s) = c THEN <<acc>> \o SplitFrom(Tail(s), c, <<>>)
  ELSE SplitFrom(Tail(s), c, Append(acc, Head(s)))

Split(s, c) == SplitFrom(s, c, <<>>)

(***************************************************************************)
(* Numbers.  A float is modelled exactly as a decimal m / 10^e, or NaN;    *)
(* the source only parses and compares them.  A value handed to            *)
(* _parse_numeric is None, a float, NaN, a Python int or a text.  The      *)
(* outcome of a call is a value, or an exception that leaves the call.     *)
(***************************************************************************)
NoneV == [k |-> "none", m |-> 0, e |-> 0, s |-> <<>>]

NaNV == [k |-> "nan", m |-> 0, e |-> 0, s |-> <<>>]

RECURSIVE Pow10(_)
Pow10(n) == IF n = 0 THEN 1 ELSE 10 * Pow10(n - 1)

\* Drop trailing zeros of the fraction: 4050 / 10^2 is 405 / 10^1.
RECURSIVE Normal(_, _)
Normal(m, e) ==
  IF e > 0 /\ m % 10 = 0 THEN Normal(m \div 10, e - 1)
  ELSE [k |-> "num", m |-> m, e |-> e, s |-> <<>>]

NumV(m, e) == Normal(m, e)

StrV(s) == [k |-> "str", m |-> 0, e |-> 0, s |-> s]

\* The Python int m * 10^z, with one significant digit m.
IntV(m, z) == [k |-> "int", m |-> m, e |-> z, s |-> <<>>]

\* An exception that leaves the call, by the name of its class.
RaiseV(name) == [k |-> "raise", m |-> 0, e |-> 0, s |-> <<name>>]

\* float(value) for an int: a float holds no more than about 1.797 * 10^308,
\* and float() raises OverflowError for an int beyond it.
FloatDeEntero(value) ==
  IF value.m = 0 THEN [k |-> "num", m |-> 0, e |-> 0, s |-> <<>>]
  ELSE IF value.e > 308 \/ (value.e = 308 /\ (value.m > 1 \/ value.m < -1))
  THEN RaiseV("OverflowError")
  ELSE IF value.e <= 8
  THEN [k |-> "num", m |-> value.m * Pow10(value.e), e |-> 0, s |-> <<>>]
  ELSE [k |-> "num", m |-> value.m, e |-> 0 - value.e, s |-> <<>>]

\* a <= b on floats; any comparison with NaN is false.
NumLE(a, b) ==
  /\ a.k = "num"
  /\ b.k = "num"
  /\ a.m * Pow10(b.e) <= b.m * Pow10(a.e)

Digits == <<"0","1","2","3","4","5","6","7","8","9">>

IsDigit(c) == \E i \in 1..10 : Digits[i] = c

DigitVal(c) == (CHOOSE i \in 1..10 : Digits[i] = c) - 1

RECURSIVE DigitsVal(_, _)
DigitsVal(s, acc) ==
  IF s = <<>> THEN acc ELSE DigitsVal(Tail(s), 10 * acc + DigitVal(Head(s)))

\* float(text) for decimal literals: [sign] digits [. digits] with at least
\* one digit.  Any other text is a ValueError (NoneV here).  The texts of the
\* model hold no exponent, underscore, "inf" or "nan", which float() accepts.
PyFloat(text) ==
  With(Strip(text), LAMBDA t :
  With(IF t # <<>> /\ Head(t) \in {"-", "+"} THEN Tail(t) ELSE t, LAMBDA body :
  With(Replace(body, ".", <<>>), LAMBDA ds :
  With(Len(body) - Len(ds), LAMBDA dots :
    IF /\ dots <= 1
       /\ ds # <<>>
       /\ \A i \in 1..Len(ds) : IsDigit(ds[i])
    THEN NumV((IF Head(t) = "-" THEN -1 ELSE 1) * DigitsVal(ds, 0),
              IF dots = 1
              THEN Len(body) - (CHOOSE i \in 1..Len(body) : body[i] = ".")
              ELSE 0)
    ELSE NoneV))))

\* The first candidate that float() accepts, else None.
RECURSIVE FirstFloat(_)
FirstFloat(candidates) ==
  IF candidates = <<>> THEN NoneV
  ELSE With(PyFloat(Head(candidates)), LAMBDA f :
         IF f.k # "none" THEN f ELSE FirstFloat(Tail(candidates)))

\* Lines 41-47: the spellings tried in turn, for a text without spaces.
candidates(text) ==
  With(Count(text, ","), LAMBDA commas :
  With(Count(text, "."), LAMBDA dots :
    <<text>>
    \o (IF commas > 0 /\ dots > 0
        THEN <<Replace(Replace(text, ".", <<>>), ",", <<".">>)>>
        ELSE <<>>)
    \o (IF commas > 0 THEN <<Replace(text, ",", <<".">>)>> ELSE <<>>)
    \o (IF dots > 1 THEN <<Replace(text, ".", <<>>)>> ELSE <<>>)))

ParseNumeric(value) ==
  IF value.k = "none" THEN NoneV
  ELSE IF value.k \in {"num", "nan"} THEN value
  ELSE IF value.k = "int" THEN FloatDeEntero(value)
  ELSE With(Strip(value.s), LAMBDA stripped :
         IF stripped = <<>> THEN NoneV
         ELSE FirstFloat(candidates(Replace(stripped, " ", <<>>))))

(***************************************************************************)
(* Texts of the record table and of the configuration.                     *)
(***************************************************************************)
\* str(value) of a cell: a missing cell prints as "nan".
PyStr(v) == IF IsNull(v) THEN <<"n","a","n">> ELSE v

T_Padre == <<"P","a","d","r","e">>

T_Madre == <<"M","a","d","r","e">>

T_Hijo == <<"H","i","j","o">>

T_Hija == <<"H","i","j","a">>

T_Conyuge == <<"C","ó","n","y","u","g","e">>

T_Companero_a == <<"C","o","m","p","a","ñ","e","r","o","(","a",")">>

T_Titular == <<"T","i","t","u","l","a","r">>

\* A kinship label that holds two of the words the valuation looks for.
T_Conyuge_Companero_a == T_Conyuge \o <<"/">> \o T_Companero_a

T_casado == <<"c","a","s","a","d","o">>

T_companero == <<"c","o","m","p","a","ñ","e","r","o">>

T_soltero == <<"s","o","l","t","e","r","o">>

T_conyuge == <<"c","ó","n","y","u","g","e">>

T_conyuge_sin_tilde == <<"c","o","n","y","u","g","e">>

T_titular == <<"t","i","t","u","l","a","r">>

T_hijo == <<"h","i","j","o">>

T_padre == <<"p","a","d","r","e">>

T_madre == <<"m","a","d","r","e">>

(***************************************************************************)
(* Tariff table (asignar_prima_neta).  The raw configuration is an ordered *)
(* dictionary: a sequence of [rango, valores] with distinct range keys,    *)
(* valores a sequence of [plan, valor] with distinct plan keys.            *)
(***************************************************************************)
\* planes_normalizados: the last entry written under a case-folded name wins.
RECURSIVE PlanesNormalizados(_, _)
PlanesNormalizados(valores, acc) ==
  IF valores = <<>> THEN acc
  ELSE With(Strip(Head(valores).plan), LAMBDA plan_nombre :
       With(ParseNumeric(Head(valores).valor), LAMBDA valor_float :
         PlanesNormalizados(
           Tail(valores),
           IF plan_nombre = <<>> \/ valor_float.k = "none"
           THEN acc
           ELSE With(CaseFold(plan_nombre), LAMBDA clave :
                  Eval([c \in (DOMAIN acc) \cup {clave} |->
                          IF c = clave THEN valor_float ELSE acc[c]])))))

EmptyDict == [c \in {} |-> NoneV]

\* A faulty parse: it stops at the first range it cannot use, where the
\* source goes on with the next one.
RECURSIVE ParseTarifasHastaError(_)
ParseTarifasHastaError(tarifas_fuente) ==
  IF tarifas_fuente = <<>> THEN <<>>
  ELSE With(Split(Head(tarifas_fuente).rango, ","), LAMBDA partes :
         IF Len(partes) # 2 THEN <<>>
         ELSE With(ParseNumeric(StrV(Strip(partes[1]))), LAMBDA edad_min_val :
              With(ParseNumeric(StrV(Strip(partes[2]))), LAMBDA edad_max_val :
              With(PlanesNormalizados(Head(tarifas_fuente).valores, EmptyDict),
                   LAMBDA planes :
                IF edad_min_val.k = "none" \/ edad_max_val.k = "none"
                THEN <<>>
                ELSE (IF DOMAIN planes = {} THEN <<>>
                      ELSE <<[edad_min |-> edad_min_val,
                              edad_max |-> edad_max_val,
                              planes   |-> planes]>>)
                     \o ParseTarifasHastaError(Tail(tarifas_fuente))))))

\* parsed_tarifas: one (edad_min, edad_max, planes) per usable range, in the
\* order of the configuration.
RECURSIVE ParseTarifas(_)
ParseTarifas(tarifas_fuente) ==
  IF tarifas_fuente = <<>> THEN <<>>
  ELSE With(Split(Head(tarifas_fuente).rango, ","), LAMBDA partes :
         (IF Len(partes) # 2 THEN <<>>
          ELSE With(ParseNumeric(StrV(Strip(partes[1]))), LAMBDA edad_min_val :
               With(ParseNumeric(StrV(Strip(partes[2]))), LAMBDA edad_max_val :
               With(PlanesNormalizados(Head(tarifas_fuente).valores, EmptyDict),
                    LAMBDA planes :
                 IF edad_min_val.k = "none" \/ edad_max_val.k = "none"
                 THEN <<>>
                 ELSE IF DOMAIN planes = {} THEN <<>>
                 ELSE <<[edad_min |-> edad_min_val,
                         edad_max |-> edad_max_val,
                         planes   |-> planes]>>))))
         \o ParseTarifas(Tail(tarifas_fuente)))

DictGet(d, key) == IF key \in DOMAIN d THEN d[key] ELSE NoneV

\* A faulty scan: it leaves at the first range that holds the age, whether or
\* not that range prices the plan.
RECURSIVE BuscarPrimaPrimerRango(_, _, _)
BuscarPrimaPrimerRango(parsed_tarifas, edad_numero, plan) ==
  IF parsed_tarifas = <<>> THEN NoneV
  ELSE IF /\ NumLE(Head(parsed_tarifas).edad_min, edad_numero)
          /\ NumLE(edad_numero, Head(parsed_tarifas).edad_max)
  THEN DictGet(Head(parsed_tarifas).planes, CaseFold(plan))
  ELSE BuscarPrimaPrimerRango(Tail(parsed_tarifas), edad_numero, plan)

\* The scan of lines 1108-1113: leave at the first range that holds the age
\* and has a price for the plan.
RECURSIVE BuscarPrima(_, _, _)
BuscarPrima(parsed_tarifas, edad_numero, plan) ==
  IF parsed_tarifas = <<>> THEN NoneV
  ELSE With(Head(parsed_tarifas), LAMBDA h :
       With(DictGet(h.planes, CaseFold(plan)), LAMBDA prima :
         IF /\ NumLE(h.edad_min, edad_numero)
            /\ NumLE(edad_numero, h.edad_max)
            /\ prima.k # "none"
         THEN prima
         ELSE BuscarPrima(Tail(parsed_tarifas), edad_numero, plan)))

Cero == NumV(0, 0)

\* The value written to 'Prima Neta' for one row (lines 1092-1118).
PrimaDeFila(parsed_tarifas, row) ==
  With(IF IsNull(row.PLAN) THEN <<>> ELSE Strip(row.PLAN), LAMBDA plan :
  With(ParseNumeric(row.Edad), LAMBDA edad_numero :
    IF plan = <<>> THEN Cero
    ELSE IF edad_numero.k = "none" THEN Cero
    ELSE With(BuscarPrima(parsed_tarifas, edad_numero, plan), LAMBDA prima :
           IF prima.k # "none" THEN prima ELSE Cero)))

\* A faulty source: the grid of the window, whatever the configuration holds.
TarifasDeLaVentana(config_data_tarifas, ui_tarifas) == ui_tarifas

\* tarifas_fuente (lines 1038-1042): the stored configuration, else the grid.
TarifasFuente(config_data_tarifas, ui_tarifas) ==
  IF config_data_tarifas # <<>> THEN config_data_tarifas ELSE ui_tarifas

\* asignar_prima_neta on a table: the new [df, cols].
AsignarPrimaNeta(df, cols, tarifas_fuente) ==
  IF df = <<>> THEN [df |-> df, cols |-> cols]
  ELSE IF tarifas_fuente = <<>> THEN [df |-> df, cols |-> cols]
  ELSE IF "PLAN" \notin cols \/ "Edad" \notin cols
  THEN [df |-> df, cols |-> cols]
  ELSE With(ParseTarifas(tarifas_fuente), LAMBDA parsed_tarifas :
         IF parsed_tarifas = <<>> THEN [df |-> df, cols |-> cols]
         ELSE [df   |-> EvalSeq([i \in 1..Len(df) |->
                           [df[i] EXCEPT
                              !.Prima_Neta =
                                 PrimaDeFila(parsed_tarifas, df[i])]]),
               cols |-> cols \cup {"Prima Neta"}])

(***************************************************************************)
(* The record table.  A row is a record with one field per column of the   *)
(* model's schema plus idx, its index label; cols is the set of columns    *)
(* the table has, and the cell of an absent column is never read.          *)
(*   Identificacion_Titular, Estado_Civil, Parentesco, PLAN, TIPO_POLIZA,  *)
(*   Grupo, Tipo, Estado, Poliza : a text or NULL                          *)
(*   Edad, Prima_Neta, Descuento_POS : a value (NoneV, NaNV, number, text) *)
(*   Elegible_Beneficio : "True", "False" or "NaN"                         *)
(*   Transicion_Estado_Civil : "", "Soltero→Casado" or "NaN"               *)
(*   Aplica_Beneficio, Transicion_Soltero_Casado, Plan_Valido : BOOLEAN    *)
(*   Motivo_No_Beneficio : a sequence of message parts, <<>> when empty    *)
(*   Porcentaje_Beneficio : an integer amount                              *)
(***************************************************************************)
Positions(df) == 1..Len(df)

\* DataFrame.groupby(column) drops the rows whose key is missing.
GroupKeys(df) == {df[i].Identificacion_Titular : i \in Positions(df)} \ {NULL}

\* The members of a household, as positions in table order.
RECURSIVE MembersFrom(_, _, _)
MembersFrom(df, titular, i) ==
  IF i > Len(df) THEN <<>>
  ELSE (IF df[i].Identificacion_Titular = titular THEN <<i>> ELSE <<>>)
       \o MembersFrom(df, titular, i + 1)

Members(df, titular) == MembersFrom(df, titular, 1)

SeqRange(q) == {q[i] : i \in 1..Len(q)}

\* groupby sorts the keys: texts compare by code point, character by character.
CodeOrder ==
  <<" ","(",")",",","-",".">> \o Digits
  \o SubSeq(UpperAlpha, 1, 26) \o SubSeq(LowerAlpha, 1, 26)
  \o <<"Á","É","Í","Ñ","Ó","Ú","á","é","í","ñ","ó","ú">>

Ord(c) == CHOOSE i \in 1..Len(CodeOrder) : CodeOrder[i] = c

RECURSIVE TextLess(_, _)
TextLess(a, b) ==
  IF b = <<>> THEN FALSE
  ELSE IF a = <<>> THEN TRUE
  ELSE IF Head(a) = Head(b) THEN TextLess(Tail(a), Tail(b))
  ELSE Ord(Head(a)) < Ord(Head(b))

RECURSIVE SortedKeys(_)
SortedKeys(keys) ==
  IF keys = {} THEN <<>>
  ELSE With(CHOOSE k \in keys : \A o \in keys \ {k} : TextLess(k, o),
            LAMBDA least : <<least>> \o SortedKeys(keys \ {least}))

(***************************************************************************)
(* Eligibility stage (filtrar_beneficiarios).                              *)
(***************************************************************************)
MaxElegibles == 3

FillNaElegible(v) == IF v = "NaN" THEN "False" ELSE v

FillNaTransicion(v) == IF v = "NaN" THEN "" ELSE v

\* Lines 944-952: both columns exist afterwards, with no missing cell.
DefaultFlags(df, cols) ==
  EvalSeq([i \in 1..Len(df) |->
     [df[i] EXCEPT
        !.Elegible_Beneficio =
           IF "Elegible_Beneficio" \in cols
           THEN FillNaElegible(df[i].Elegible_Beneficio) ELSE "False",
        !.Transicion_Estado_Civil =
           IF "Transicion_Estado_Civil" \in cols
           THEN FillNaTransicion(df[i].Transicion_Estado_Civil) ELSE ""]])

\* A faulty guard: it asks for the household key only.
SoloColumnaTitular(cols) == "Identificacion_Titular" \in cols

\* Line 973: the three columns the stage needs.  The column names of the
\* model are the normalised ones of lines 954-971.
RequiredColumnsPresent(cols) ==
  /\ "Identificacion_Titular" \in cols
  /\ "Estado_Civil" \in cols
  /\ "Parentesco" \in cols

\* A faulty read: the marital text of the household's last record.
EstadoCivilUltimo(df, titular) ==
  With(Members(df, titular), LAMBDA members :
  With(df[members[Len(members)]].Estado_Civil, LAMBDA estado_valor :
    IF IsNull(estado_valor) THEN <<>> ELSE Lower(Strip(estado_valor))))

\* Lines 978-982: the marital text of the household's first record.
EstadoCivil(df, titular) ==
  With(df[Members(df, titular)[1]].Estado_Civil, LAMBDA estado_valor :
    IF IsNull(estado_valor) THEN <<>> ELSE Lower(Strip(estado_valor)))

\* Line 996: the marriage markers that choose the regime.
EsCasado(estado_civil) ==
  Contains(estado_civil, T_casado) \/ Contains(estado_civil, T_companero)

\* Line 988.
TienePadres(df, members) ==
  \E i \in SeqRange(members) : df[i].Parentesco \in {T_Padre, T_Madre}

\* A faulty test: it knows the marker "casado" only.
HayTransicionSoloCasado(estado_civil, tiene_padres) ==
  Contains(estado_civil, T_casado) /\ tiene_padres

\* Lines 990-993: the household is flagged as a transition.
HayTransicion(estado_civil, tiene_padres) ==
  /\ Contains(estado_civil, T_casado) \/ Contains(estado_civil, T_companero)
  /\ tiene_padres

\* Lines 996-1001.
ParentescosValidos(estado_civil) ==
  IF EsCasado(estado_civil)
  THEN {T_Conyuge, T_Companero_a, T_Hijo, T_Hija}
  ELSE {T_Padre, T_Madre, T_Hijo, T_Hija}

\* A faulty regime: no kinship is excluded.
SinExcluidos(estado_civil) == {}

\* Lines 997 and 1000.
ParentescosExcluidos(estado_civil) ==
  IF EsCasado(estado_civil) THEN {T_Padre, T_Madre} ELSE {}

\* Lines 1008-1011: the priority list looks at "casado" only.
Prioridad(estado_civil) ==
  IF Contains(estado_civil, T_casado)
  THEN <<T_Conyuge, T_Companero_a, T_Hijo, T_Hija>>
  ELSE <<T_Padre, T_Madre, T_Hijo, T_Hija>>

\* Line 1015: prioridad.index(p) if p in prioridad else 99.
PrioridadDe(prioridad, p) ==
  IF \E i \in 1..Len(prioridad) : prioridad[i] = p
  THEN (CHOOSE i \in 1..Len(prioridad) : prioridad[i] = p) - 1
  ELSE 99

\* Lines 1003-1005.
BeneficiariosValidos(df, members, estado_civil) ==
  {i \in SeqRange(members) :
     df[i].Parentesco \in ParentescosValidos(estado_civil)}

\* Lines 1007-1016: the sets sort_values("prioridad").head(3) can return,
\* rank mapping each valid position to its priority.  sort_values sorts with
\* quicksort, which is not stable: among rows of equal priority any may come
\* first.
Seleccionados(validos, rank) ==
  IF Cardinality(validos) > MaxElegibles
  THEN {S \in SUBSET validos :
          /\ Cardinality(S) = MaxElegibles
          /\ \A a \in S : \A b \in validos \ S : rank[a] <= rank[b]}
  ELSE {validos}

\* What lines 978-1016 compute for one household.
Hogar(df, titular) ==
  With(Members(df, titular), LAMBDA members :
  With(EstadoCivil(df, titular), LAMBDA estado_civil :
  With(Prioridad(estado_civil), LAMBDA prioridad :
  With(BeneficiariosValidos(df, members, estado_civil), LAMBDA validos :
    [members    |-> SeqRange(members),
     transicion |-> HayTransicion(estado_civil, TienePadres(df, members)),
     excluidos  |-> ParentescosExcluidos(estado_civil),
     selecciones |->
        Seleccionados(validos,
                      Eval([i \in validos |->
                              PrioridadDe(prioridad, df[i].Parentesco)]))]))))

\* The selections of all households: one selection per household, joined.
RECURSIVE Selecciones(_, _)
Selecciones(hogares, keys) ==
  IF keys = <<>> THEN {{}}
  ELSE {S \cup U : S \in hogares[Head(keys)].selecciones,
                   U \in Selecciones(hogares, Tail(keys))}

\* The step at which the processing of a household raises, "" when it does
\* not: "estado" is lines 978-988 (nothing written yet), "seleccion" lines
\* 996-1016 (after the write of line 994), "padres" lines 1020-1022 (after
\* the write of line 1018).  The except of line 1024 ends the household
\* there and the loop goes on.
PasoDeFalla(fallas, titular) ==
  IF titular \in DOMAIN fallas THEN fallas[titular] ELSE ""

\* Lines 994, 1018 and 1020-1022 for one row, U being the selected
\* positions: the writes made before the household's processing ended.
FilaFiltrada(row, hogar, seleccionado, paso) ==
  [row EXCEPT
     !.Transicion_Estado_Civil =
        IF hogar.transicion /\ paso # "estado" THEN "Soltero→Casado" ELSE @,
     !.Elegible_Beneficio =
        IF paso \in {"estado", "seleccion"} THEN @
        ELSE IF paso = "" /\ row.Parentesco \in hogar.excluidos THEN "False"
        ELSE IF seleccionado THEN "True" ELSE @]

\* filtrar_beneficiarios: the tables [df, cols] it can return.
FiltrarBeneficiarios(df, cols, fallas) ==
  With(DefaultFlags(df, cols), LAMBDA work_df :
  With(cols \cup {"Elegible_Beneficio", "Transicion_Estado_Civil"}, LAMBDA cols2 :
    IF df = <<>> \/ ~RequiredColumnsPresent(cols)
    THEN {[df |-> work_df, cols |-> cols2]}
    ELSE With(GroupKeys(work_df), LAMBDA keys :
         With(Eval([t \in keys |-> Hogar(work_df, t)]), LAMBDA hogares :
           {[df   |-> EvalSeq([i \in 1..Len(work_df) |->
                         With(work_df[i], LAMBDA row :
                           IF IsNull(row.Identificacion_Titular)
                           THEN row
                           ELSE FilaFiltrada(
                                  row,
                                  hogares[row.Identificacion_Titular],
                                  i \in U,
                                  PasoDeFalla(fallas,
                                              row.Identificacion_Titular)))]),
             cols |-> cols2] :
              U \in Selecciones(hogares, SortedKeys(keys))}))))

(***************************************************************************)
(* Exclusion filters and plan discount (_apply_business_logic).            *)
(***************************************************************************)
\* SelectSeq with the predicate written as a set of kept positions.
RECURSIVE KeepFrom(_, _, _)
KeepFrom(df, keep, i) ==
  IF i > Len(df) THEN <<>>
  ELSE (IF i \in keep THEN <<df[i]>> ELSE <<>>) \o KeepFrom(df, keep, i + 1)

\* No copy: result names the object it was given.
SinCopia(obj) == obj

\* df.copy() (line 852): a new table object.
DfCopy(obj) == "copia"

\* Lines 860-862: result[...] is a new table object when a filter applies.
ObjetoTrasFiltros(obj, cols, config) ==
  IF \/ config.parentescos_excluir # {} /\ "Parentesco" \in cols
     \/ config.tipos_excluir # {} /\ "Tipo" \in cols
     \/ config.estados_excluir # {} /\ "Estado" \in cols
  THEN "filtrado" ELSE obj

\* A filter that removes nothing.
NoExcluir(df, cols, column, celdas, exclusions) == df

\* Line 862 for one column, celdas being the column's cells in row order:
\* result[~result[column].isin(exclusions)].
Excluir(df, cols, column, celdas, exclusions) ==
  IF exclusions # {} /\ column \in cols
  THEN KeepFrom(df, {i \in Positions(df) : celdas[i] \notin exclusions}, 1)
  ELSE df

\* A faulty loop: it stops after the first filter.
FiltrosSoloParentesco(df, cols, config) ==
  Excluir(df, cols, "Parentesco",
          EvalSeq([i \in 1..Len(df) |-> df[i].Parentesco]),
          config.parentescos_excluir)

\* Lines 855-862: the three filters, in order.
FiltrosExclusion(df, cols, config) ==
  With(Excluir(df, cols, "Parentesco",
               EvalSeq([i \in 1..Len(df) |-> df[i].Parentesco]),
               config.parentescos_excluir), LAMBDA r1 :
  With(Excluir(r1, cols, "Tipo",
               EvalSeq([i \in 1..Len(r1) |-> r1[i].Tipo]),
               config.tipos_excluir), LAMBDA r2 :
    Excluir(r2, cols, "Estado",
            EvalSeq([i \in 1..Len(r2) |-> r2[i].Estado]),
            config.estados_excluir)))

\* normalize_string (lines 866-871).
NormalizeString(value) ==
  IF IsNull(value) THEN <<>> ELSE CaseFold(Strip(value))

\* plan_mapping (lines 900-904): the last entry of a (plan, poliza) pair wins.
PlanMappingKeys(planes) ==
  {<<NormalizeString(planes[j].plan), NormalizeString(planes[j].poliza)>> :
     j \in {j \in 1..Len(planes) :
              planes[j].plan # <<>> /\ planes[j].poliza # <<>>}}

PlanMappingGet(planes, key) ==
  With({j \in 1..Len(planes) :
          /\ planes[j].plan # <<>>
          /\ planes[j].poliza # <<>>
          /\ <<NormalizeString(planes[j].plan),
               NormalizeString(planes[j].poliza)>> = key},
       LAMBDA hits :
         IF hits = {} THEN NoneV
         ELSE planes[CHOOSE j \in hits : \A o \in hits : o <= j].valor)

\* Lines 892-898: the Plan_Valido column.
PlanValido(df, cols, config) ==
  LET plan_values ==
        {NormalizeString(config.planes[j].plan) :
           j \in {j \in 1..Len(config.planes) : config.planes[j].plan # <<>>}}
  IN  EvalSeq([i \in 1..Len(df) |->
         [df[i] EXCEPT
            !.Plan_Valido =
               IF "PLAN" \notin cols THEN @
               ELSE IF config.planes # <<>>
               THEN NormalizeString(df[i].PLAN) \in plan_values
               ELSE TRUE]])

\* Lines 906-919: the descuento_pos list, or an IndexError.  The list is
\* written at the row's index label, which is its position in the table the
\* caller passed, not in the filtered table.
RECURSIVE DescuentoLoop(_, _, _, _)
DescuentoLoop(df, planes, i, descuento_pos) ==
  IF i > Len(df)
  THEN [descuento_pos |-> descuento_pos, error |-> ""]
  ELSE With(PlanMappingGet(planes, <<NormalizeString(df[i].PLAN),
                                      NormalizeString(df[i].Poliza)>>),
            LAMBDA valor :
         IF valor.k # "none" /\ df[i].idx + 1 > Len(descuento_pos)
         THEN [descuento_pos |-> descuento_pos, error |-> "IndexError"]
         ELSE DescuentoLoop(df, planes, i + 1,
                            IF valor.k = "none" THEN descuento_pos
                            ELSE [descuento_pos EXCEPT ![df[i].idx + 1] = valor]))

PlanDescuento(df, cols, config) ==
  LET inicial == EvalSeq([i \in 1..Len(df) |->
                    IF "Descuento POS" \in cols
                    THEN df[i].Descuento_POS ELSE NoneV])
  IN  IF /\ PlanMappingKeys(config.planes) # {}
         /\ "PLAN" \in cols
         /\ "Poliza" \in cols
      THEN DescuentoLoop(df, config.planes, 1, inicial)
      ELSE [descuento_pos |-> inicial, error |-> ""]

(***************************************************************************)
(* Benefit valuation (aplicar_politica_beneficios).                        *)
(***************************************************************************)
max_beneficiarios == 3

P_Salud_Sura_Clasica == <<"S","a","l","u","d"," ","S","u","r","a"," ","C","l","a","s","i","c","a">>

P_Sura_Evoluciona == <<"S","u","r","a"," ","E","v","o","l","u","c","i","o","n","a">>

P_Salud_Sura_Global == <<"S","a","l","u","d"," ","S","u","r","a"," ","G","l","o","b","a","l">>

P_SALUD_PARA_TODOS == <<"S","A","L","U","D"," ","P","A","R","A"," ","T","O","D","O","S">>

\* tabla_valores (lines 1145-1153).
tabla_valores ==
  <<[TIPO_POLIZA |-> P_Salud_Sura_Clasica, PLAN |-> <<"2","6","6">>, VALOR |-> 89000],
    [TIPO_POLIZA |-> P_Salud_Sura_Clasica, PLAN |-> <<"2","6","7">>, VALOR |-> 89000],
    [TIPO_POLIZA |-> P_Sura_Evoluciona,    PLAN |-> <<"8","1","7">>, VALOR |-> 71000],
    [TIPO_POLIZA |-> P_Salud_Sura_Global,  PLAN |-> <<"3","0","7">>, VALOR |-> 89000],
    [TIPO_POLIZA |-> P_SALUD_PARA_TODOS,   PLAN |-> <<"1","3">>,     VALOR |-> 57000],
    [TIPO_POLIZA |-> P_SALUD_PARA_TODOS,   PLAN |-> <<"1","1">>,     VALOR |-> 57000],
    [TIPO_POLIZA |-> P_SALUD_PARA_TODOS,   PLAN |-> <<"1","2">>,     VALOR |-> 57000]>>

\* valores_dict (lines 1155-1158): the last row of a key wins.
valores_dict ==
  LET clave(j) == <<Lower(Strip(tabla_valores[j].TIPO_POLIZA)),
                    Strip(tabla_valores[j].PLAN)>>
  IN  Eval([c \in {clave(j) : j \in 1..Len(tabla_valores)} |->
              tabla_valores[CHOOSE j \in 1..Len(tabla_valores) :
                              /\ clave(j) = c
                              /\ \A o \in 1..Len(tabla_valores) :
                                    clave(o) = c => o <= j].VALOR])

\* valores_dict.get((tipo_poliza, plan), 0) (line 1203).
ValorBeneficio(tipo_poliza, plan) ==
  IF <<tipo_poliza, plan>> \in DOMAIN valores_dict
  THEN valores_dict[<<tipo_poliza, plan>>] ELSE 0

\* row.get(column, "") followed by str(): "" when the table lacks the column.
CellStr(cols, column, v) == IF column \in cols THEN PyStr(v) ELSE <<>>

\* Lines 1172-1183: the mode of a household and its priority list.
TieneConyuge(parentescos) ==
  \E i \in 1..Len(parentescos) :
     \/ Contains(parentescos[i], T_conyuge)
     \/ Contains(parentescos[i], T_conyuge_sin_tilde)
     \/ Contains(parentescos[i], T_companero)

Modo(grupo_texto, parentescos) ==
  IF Contains(grupo_texto, T_soltero) /\ TieneConyuge(parentescos)
  THEN "Transición Soltero → Casado"
  ELSE IF \/ Contains(grupo_texto, T_casado)
          \/ Contains(grupo_texto, T_conyuge)
          \/ Contains(grupo_texto, T_conyuge_sin_tilde)
          \/ Contains(grupo_texto, T_companero)
  THEN "Casado"
  ELSE "Soltero"

PrioridadModo(modo) ==
  IF modo = "Transición Soltero → Casado"
  THEN <<T_titular, T_conyuge, T_conyuge_sin_tilde, T_companero,
         T_hijo, T_padre, T_madre>>
  ELSE IF modo = "Casado"
  THEN <<T_titular, T_conyuge, T_conyuge_sin_tilde, T_companero, T_hijo>>
  ELSE <<T_titular, T_padre, T_madre, T_hijo>>

MotivoExcede(modo) ==
  <<"Excede el máximo de 3 beneficiarios del grupo '", modo, "'.">>

MotivoAplica(modo, plan) ==
  <<"Aplica según grupo '", modo, "' y plan ">> \o plan \o <<".">>

MotivoSinValor ==
  <<"No existe valor configurado en la tabla de beneficios para este plan/tipo de póliza.">>

MotivoCasadoPadres ==
  <<"No aplica porque el grupo es Casado y el parentesco es Padre/Madre.">>

MotivoSolteroConyuge ==
  <<"Grupo indica Soltero, pero se detectó Cónyuge/Compañero(a). Se considera transición.">>

MotivoFueraPrioridad(modo) ==
  <<"No aplica por regla del grupo '", modo, "'. Parentesco fuera de prioridad.">>

\* Lines 1188-1189: the household's rows each priority word selects, word
\* after word; a row whose kinship holds two of the words comes twice.
\* parentescos maps a position to its lower-cased kinship.
RECURSIVE Candidatos(_, _, _)
Candidatos(parentescos, members, prioridad) ==
  IF prioridad = <<>> THEN <<>>
  ELSE SelectSeq(members, LAMBDA i : Contains(parentescos[i], Head(prioridad)))
       \o Candidatos(parentescos, members, Tail(prioridad))

\* Lines 1190-1192: the first max_beneficiarios candidates apply.
Aplican(candidatos) ==
  SubSeq(candidatos, 1,
         IF Len(candidatos) < max_beneficiarios
         THEN Len(candidatos) ELSE max_beneficiarios)

\* Lines 1193-1196: every later candidate is written the "exceeds" reason.
Excedidos(candidatos) ==
  SubSeq(candidatos, max_beneficiarios + 1, Len(candidatos))

\* Lines 1210-1226: the reason of a row that does not apply and has none yet.
MotivoNoAplica(valor_beneficio, grupo_texto, parentesco, modo) ==
  IF valor_beneficio = 0 THEN MotivoSinValor
  ELSE IF /\ Contains(grupo_texto, T_casado)
          /\ (Contains(parentesco, T_padre) \/ Contains(parentesco, T_madre))
  THEN MotivoCasadoPadres
  ELSE IF /\ Contains(grupo_texto, T_soltero)
          /\ \/ Contains(parentesco, T_conyuge)
             \/ Contains(parentesco, T_conyuge_sin_tilde)
             \/ Contains(parentesco, T_companero)
  THEN MotivoSolteroConyuge
  ELSE MotivoFueraPrioridad(modo)

\* Lines 1198-1226 for one row: [row, log], log being the writes of a reason
\* this iteration makes.  aplican and excedidos are sets of positions.
ValorarFila(row0, cols, esAplican, esExcedido, modo, grupo_texto) ==
  With(IF esExcedido
       THEN [row0 EXCEPT !.Motivo_No_Beneficio = MotivoExcede(modo)]
       ELSE row0, LAMBDA row :
  With(Strip(CellStr(cols, "PLAN", row.PLAN)), LAMBDA plan :
  With(ValorBeneficio(
         Lower(Strip(CellStr(cols, "TIPO POLIZA", row.TIPO_POLIZA))), plan),
       LAMBDA valor_beneficio :
    IF esAplican /\ valor_beneficio > 0
    THEN With(MotivoAplica(modo, plan), LAMBDA motivo :
           [row |-> [row EXCEPT
                       !.Aplica_Beneficio = TRUE,
                       !.Porcentaje_Beneficio = valor_beneficio,
                       !.Motivo_No_Beneficio = motivo],
            log |-> <<<<row.idx, motivo>>>>])
    ELSE IF row.Motivo_No_Beneficio = <<>>
    THEN With(MotivoNoAplica(
                valor_beneficio, grupo_texto,
                Lower(CellStr(cols, "Parentesco", row.Parentesco)), modo),
              LAMBDA motivo :
           [row |-> [row EXCEPT !.Motivo_No_Beneficio = motivo],
            log |-> <<<<row.idx, motivo>>>>])
    ELSE [row |-> row, log |-> <<>>])))

RECURSIVE ConcatLogs(_, _)
ConcatLogs(f, order) ==
  IF order = <<>> THEN <<>> ELSE f[Head(order)].log \o ConcatLogs(f, Tail(order))

\* Lines 1168-1226 for one household: [rows, log, error], rows mapping each
\* member's position to its row afterwards.  A missing kinship in the
\* household makes the boolean mask of line 1189 hold NaN: indexing raises.
ValorarGrupo(df, cols, titular) ==
  With(Members(df, titular), LAMBDA members :
  With(Lower(CellStr(cols, "Grupo", df[members[1]].Grupo)), LAMBDA grupo_texto :
  With(Eval([i \in SeqRange(members) |-> Lower(PyStr(df[i].Parentesco))]),
       LAMBDA parentescos :
  With(Modo(grupo_texto,
            EvalSeq([j \in 1..Len(members) |-> parentescos[members[j]]])),
       LAMBDA modo :
  With(EvalSeq([j \in 1..Len(df) |->
                  IF modo = "Transición Soltero → Casado"
                  THEN [df[j] EXCEPT !.Transicion_Soltero_Casado = TRUE]
                  ELSE df[j]]),
       LAMBDA marcado :
    IF \E i \in SeqRange(members) : IsNull(df[i].Parentesco)
    THEN [rows  |-> Eval([i \in SeqRange(members) |-> marcado[i]]),
          log   |-> <<>>,
          error |-> "ValueError"]
    ELSE
      With(Candidatos(parentescos, members, PrioridadModo(modo)),
           LAMBDA candidatos :
      With(SeqRange(Aplican(candidatos)), LAMBDA aplican :
      With(Excedidos(candidatos), LAMBDA excedidos :
      With(Eval([i \in SeqRange(members) |->
                   ValorarFila(marcado[i], cols, i \in aplican,
                               i \in SeqRange(excedidos), modo, grupo_texto)]),
           LAMBDA filas :
        [rows  |-> Eval([i \in SeqRange(members) |-> filas[i].row]),
         log   |-> EvalSeq([j \in 1..Len(excedidos) |->
                              <<df[excedidos[j]].idx, MotivoExcede(modo)>>])
                   \o ConcatLogs(filas, members),
         error |-> ""])))))))))

\* The households processed before one raises, in groupby's order.
RECURSIVE Procesados(_, _)
Procesados(grupos, keys) ==
  IF keys = <<>> THEN <<>>
  ELSE IF grupos[Head(keys)].error # "" THEN <<Head(keys)>>
  ELSE <<Head(keys)>> \o Procesados(grupos, Tail(keys))

BeneficioCols ==
  {"Aplica_Beneficio", "Motivo_No_Beneficio", "Transicion_Soltero_Casado",
   "Porcentaje_Beneficio"}

\* Lines 1160-1163.
BeneficioDefaults(df) ==
  EvalSeq([i \in 1..Len(df) |->
     [df[i] EXCEPT
        !.Aplica_Beneficio = FALSE,
        !.Motivo_No_Beneficio = <<>>,
        !.Transicion_Soltero_Casado = FALSE,
        !.Porcentaje_Beneficio = 0]])

\* Line 1165: the two columns the pass needs, by their exact names.
BeneficioColumnsPresent(cols) ==
  "Identificacion_Titular" \in cols /\ "Parentesco" \in cols

\* aplicar_politica_beneficios: [df, cols, log, error].
AplicarPoliticaBeneficios(df, cols) ==
  With(BeneficioDefaults(df), LAMBDA df0 :
    IF df = <<>> \/ ~BeneficioColumnsPresent(cols)
    THEN [df |-> df0, cols |-> cols \cup BeneficioCols, log |-> <<>>,
          error |-> ""]
    ELSE
      With(GroupKeys(df0), LAMBDA keys :
      With(Eval([t \in keys |-> ValorarGrupo(df0, cols, t)]), LAMBDA grupos :
      With(Procesados(grupos, SortedKeys(keys)), LAMBDA hechos :
        [df    |-> EvalSeq([i \in 1..Len(df0) |->
                      With(df0[i].Identificacion_Titular, LAMBDA titular :
                        IF titular \in SeqRange(hechos)
                        THEN grupos[titular].rows[i]
                        ELSE df0[i])]),
         cols  |-> cols \cup BeneficioCols,
         log   |-> ConcatLogs(grupos, hechos),
         error |-> IF hechos # <<>> /\ grupos[hechos[Len(hechos)]].error # ""
                   THEN "ValueError" ELSE ""]))))

(***************************************************************************)
(* One run of _apply_business_logic as a state machine.                    *)
(*   entrada       the table the caller passed, [df, cols]                 *)
(*   df, cols      result, the working copy                                *)
(*   config        the AppConfig argument                                  *)
(*   config_data   self.config_data                                        *)
(*   ui_tarifas    self.tarifas, the tariff grid of the window             *)
(*   descuento_pos the list of lines 906-919                               *)
(*   motivoLog     every write of a reason made by the valuation pass, in  *)
(*                 order, as <<index label, reason>>                       *)
(*   error         the exception that left the run, "" when none           *)
(*   pc            the stage the run is about to execute                   *)
(*   valor, numero the argument and the outcome of a call of               *)
(*                 _parse_numeric made on its own                          *)
(*   objeto        the table object result names: "llamador" (the one the  *)
(*                 caller passed), "copia" or "filtrado"                   *)
(*   llamador      the caller's table as it is now, [df, cols]             *)
(*   fallas        for a household key, the step of lines 978-1022 at      *)
(*                 which its processing raises; no entry when it does not  *)
(*   archivo       config.json: the dictionary save_configuration wrote    *)
(* The other two applications of the repository are programs of their own: *)
(*   pivot_app     the PivotApp window (pivot_gui.py), <<>> when the       *)
(*                 program running is not that one                         *)
(*   data_manager  the DataManager object (PLANILLAS.py), <<>> likewise    *)
(*   llamada       the last call made on data_manager, with its arguments  *)
(***************************************************************************)
VARIABLES entrada, df, cols, config, config_data, ui_tarifas, descuento_pos,
          motivoLog, error, pc, valor, numero, objeto, llamador, fallas,
          archivo, pivot_app, data_manager, llamada

vars == <<entrada, df, cols, config, config_data, ui_tarifas, descuento_pos,
          motivoLog, error, pc, valor, numero, objeto, llamador, fallas,
          archivo, pivot_app, data_manager, llamada>>

\* The state of a run of _apply_business_logic.
Corrida == <<entrada, df, cols, descuento_pos, motivoLog, error, valor, numero,
             objeto, llamador, fallas>>

\* What a run of _apply_business_logic never touches.
Ajenas == <<archivo, pivot_app, data_manager, llamada>>

\* No configuration file written, and no object of the other applications.
SinAjenas ==
  /\ archivo = <<>>
  /\ pivot_app = <<>>
  /\ data_manager = <<>>
  /\ llamada = <<>>

\* A stage that writes into the table it was given writes into the caller's
\* table when that is the object result names.
EnSitio ==
  /\ llamador' = IF objeto = "llamador"
                 THEN [df |-> df', cols |-> cols'] ELSE llamador
  /\ UNCHANGED <<objeto, fallas>>

\* Lines 852-862: the working copy, then the exclusion filters.
Filtros ==
  /\ pc = "filtros"
  /\ df' = FiltrosExclusion(df, cols, config)
  /\ objeto' = ObjetoTrasFiltros(DfCopy(objeto), cols, config)
  /\ pc' = "filtrar"
  /\ UNCHANGED <<valor, numero, llamador, fallas>>
  /\ UNCHANGED Ajenas
  /\ UNCHANGED <<entrada, cols, config, config_data, ui_tarifas, descuento_pos,
                 motivoLog, error>>

\* Line 864.
Filtrar ==
  /\ pc = "filtrar"
  /\ \E r \in FiltrarBeneficiarios(df, cols, fallas) :
        /\ df' = r.df
        /\ cols' = r.cols
  /\ pc' = "descuento"
  /\ UNCHANGED <<valor, numero>>
  /\ UNCHANGED <<entrada, config, config_data, ui_tarifas, descuento_pos,
                 motivoLog, error>>
  /\ EnSitio
  /\ UNCHANGED Ajenas

\* Lines 866-919.
Descuento ==
  /\ pc = "descuento"
  /\ \E r \in {PlanDescuento(df, cols, config)} :
        /\ descuento_pos' = r.descuento_pos
        /\ error' = r.error
        /\ pc' = IF r.error = "" THEN "prima" ELSE "raised"
  /\ df' = PlanValido(df, cols, config)
  /\ cols' = IF "PLAN" \in cols THEN cols \cup {"Plan_Valido"} ELSE cols
  /\ UNCHANGED <<valor, numero>>
  /\ UNCHANGED <<entrada, config, config_data, ui_tarifas, motivoLog>>
  /\ EnSitio
  /\ UNCHANGED Ajenas

\* Line 921.
Prima ==
  /\ pc = "prima"
  /\ \E r \in {AsignarPrimaNeta(
                    df, cols, TarifasFuente(config_data.tarifas, ui_tarifas))} :
        /\ df' = r.df
        /\ cols' = r.cols
  /\ pc' = "beneficios"
  /\ UNCHANGED <<valor, numero>>
  /\ UNCHANGED <<entrada, config, config_data, ui_tarifas, descuento_pos,
                 motivoLog, error>>
  /\ EnSitio
  /\ UNCHANGED Ajenas

\* Line 923.
Beneficios ==
  /\ pc = "beneficios"
  /\ \E r \in {AplicarPoliticaBeneficios(df, cols)} :
        /\ df' = r.df
        /\ cols' = r.cols
        /\ motivoLog' = r.log
        /\ error' = r.error
        /\ pc' = IF r.error = "" THEN "final" ELSE "raised"
  /\ UNCHANGED <<valor, numero>>
  /\ UNCHANGED <<entrada, config, config_data, ui_tarifas, descuento_pos>>
  /\ EnSitio
  /\ UNCHANGED Ajenas

\* Lines 925-931: the discount column, then reset_index.
Finalizar ==
  /\ pc = "final"
  /\ df' = EvalSeq([i \in 1..Len(df) |->
              [df[i] EXCEPT !.Descuento_POS = descuento_pos[i], !.idx = i - 1]])
  /\ cols' = cols \cup {"Descuento POS"}
  /\ pc' = "done"
  /\ UNCHANGED <<valor, numero>>
  /\ UNCHANGED <<entrada, config, config_data, ui_tarifas, descuento_pos,
                 motivoLog, error>>
  /\ EnSitio
  /\ UNCHANGED Ajenas

Next ==
  \/ Filtros
  \/ Filtrar
  \/ Descuento
  \/ Prima
  \/ Beneficios
  \/ Finalizar

(***************************************************************************)
(* Inputs.  process_data passes a non-empty table read from a sheet, whose *)
(* index labels are 0, 1, 2, ..., and the configuration it gathered, which *)
(* it also stores in self.config_data (line 745).                          *)
(***************************************************************************)
K1 == <<"1">>

K2 == <<"2">>

E_Casado == <<"C","a","s","a","d","o">>

E_Companero == <<"C","o","m","p","a","ñ","e","r","o"," ","p","e","r","m","a","n","e","n","t","e">>

E_Soltero == <<"S","o","l","t","e","r","o">>

\* A row of the sheet; origen keeps the label the row had in the sheet.
Row(key, estado, parentesco, edad, plan, tipo_poliza, grupo, elegible, transicion) ==
  [idx |-> 0, origen |-> 0,
   Identificacion_Titular |-> key, Estado_Civil |-> estado,
   Parentesco |-> parentesco, Edad |-> edad, PLAN |-> plan,
   TIPO_POLIZA |-> tipo_poliza, Grupo |-> grupo, Tipo |-> NULL,
   Estado |-> NULL, Poliza |-> NULL,
   Elegible_Beneficio |-> elegible, Transicion_Estado_Civil |-> transicion,
   Prima_Neta |-> NoneV, Descuento_POS |-> NoneV, Plan_Valido |-> FALSE,
   Aplica_Beneficio |-> FALSE, Motivo_No_Beneficio |-> <<>>,
   Transicion_Soltero_Casado |-> FALSE, Porcentaje_Beneficio |-> 0]

\* The tables with rows drawn from a set, labelled 0..n-1 in order.
Tables(rows, n) ==
  {EvalSeq([i \in 1..n |-> [t[i] EXCEPT !.idx = i - 1, !.origen = i - 1]]) :
     t \in [1..n -> rows]}

TablesUpTo(rows, max) == UNION {Tables(rows, n) : n \in 1..max}

BaseCols ==
  {"Identificacion_Titular", "Estado_Civil", "Parentesco", "Edad", "PLAN",
   "TIPO POLIZA", "Grupo"}

Tarifas_0_59_30_99 ==
  <<[rango |-> <<"0",",","5","9">>,
     valores |-> <<[plan |-> <<"2","6","6">>, valor |-> NumV(100, 0)]>>],
    [rango |-> <<"3","0",",","9","9">>,
     valores |-> <<[plan |-> <<"2","6","6">>, valor |-> NumV(200, 0)]>>]>>

Config(parentescos_excluir, planes, tarifas) ==
  [parentescos_excluir |-> parentescos_excluir, tipos_excluir |-> {},
   estados_excluir |-> {}, planes |-> planes, tarifas |-> tarifas]

\* Lines 723-729: the prices of one range that the configuration keeps.
RECURSIVE GatherValores(_)
GatherValores(valores) ==
  IF valores = <<>> THEN <<>>
  ELSE With(Head(valores), LAMBDA h :
       With(ParseNumeric(h.valor), LAMBDA valor_float :
         (IF h.valor = NoneV \/ h.valor = StrV(<<>>) \/ valor_float.k = "none"
          THEN <<>>
          ELSE <<[plan |-> h.plan, valor |-> valor_float]>>)
         \o GatherValores(Tail(valores))))

\* tarifas[rango_key] = {...}: a key already there keeps its place.
PonerRango(tarifas, rango_key, valores) ==
  IF \E i \in 1..Len(tarifas) : tarifas[i].rango = rango_key
  THEN [i \in 1..Len(tarifas) |->
          IF tarifas[i].rango = rango_key
          THEN [rango |-> rango_key, valores |-> valores] ELSE tarifas[i]]
  ELSE Append(tarifas, [rango |-> rango_key, valores |-> valores])

\* Lines 717-729: config.tarifas as _gather_config_from_ui builds it from the
\* grid self.tarifas.
RECURSIVE GatherTarifas(_, _)
GatherTarifas(ui, tarifas) ==
  IF ui = <<>> THEN tarifas
  ELSE With(Strip(Head(ui).rango), LAMBDA rango_key :
         GatherTarifas(
           Tail(ui),
           IF rango_key = <<>> THEN tarifas
           ELSE PonerRango(tarifas, rango_key,
                           GatherValores(Head(ui).valores))))

\* The state at the call of _apply_business_logic(tabla, cfg), the grid of
\* the window being ui.
StartUI(tabla, columnas, cfg, ui) ==
  /\ entrada = [df |-> tabla, cols |-> columnas]
  /\ df = tabla
  /\ cols = columnas
  /\ config = cfg
  /\ config_data = cfg
  /\ ui_tarifas = ui
  /\ descuento_pos = <<>>
  /\ motivoLog = <<>>
  /\ error = ""
  /\ pc = "filtros"
  /\ valor = NoneV
  /\ numero = NoneV
  /\ objeto = "llamador"
  /\ llamador = [df |-> tabla, cols |-> columnas]
  /\ SinAjenas

\* The same with a grid that holds what the configuration holds, no
\* household's processing raising.
Start(tabla, columnas, cfg) ==
  /\ StartUI(tabla, columnas, cfg, cfg.tarifas)
  /\ fallas = <<>>

MaxRowsElig == 4

EstadosElig == {E_Casado, E_Companero, E_Soltero}

ParentescosElig == {T_Conyuge, T_Hijo, T_Hija, T_Padre}

\* Household 1 has the marital text estado1, household 2 is single.
RowsElig(estado1, elegible, transicion) ==
  {Row(K1, estado1, parentesco, NumV(40, 0), <<"2","6","6">>,
       P_Salud_Sura_Clasica, E_Soltero, elegible, transicion) :
     parentesco \in ParentescosElig}
  \cup
  {Row(K2, E_Soltero, parentesco, NumV(40, 0), <<"2","6","6">>,
       P_Salud_Sura_Clasica, E_Soltero, elegible, transicion) :
     parentesco \in {T_Hijo, T_Padre}}

\* Rows of a sheet that lacks one of the three required columns.
RowsEligSin(column, estado1, elegible) ==
  {[r EXCEPT
      !.Identificacion_Titular =
         IF column = "Identificacion_Titular" THEN NULL ELSE @,
      !.Estado_Civil = IF column = "Estado_Civil" THEN NULL ELSE @,
      !.Parentesco = IF column = "Parentesco" THEN NULL ELSE @] :
     r \in RowsElig(estado1, elegible, "")}

InitElig ==
  \/ \E estado1 \in EstadosElig :
       \E tabla \in TablesUpTo(RowsElig(estado1, "False", ""), MaxRowsElig) :
          Start(tabla, BaseCols, Config({}, <<>>, Tarifas_0_59_30_99))
  \/ \E estado1 \in EstadosElig :
       \E tabla \in TablesUpTo(RowsElig(estado1, "True", "NaN"), MaxRowsElig) :
          Start(tabla,
                BaseCols \cup {"Elegible_Beneficio", "Transicion_Estado_Civil"},
                Config({}, <<>>, Tarifas_0_59_30_99))
  \/ \E column \in {"Identificacion_Titular", "Estado_Civil", "Parentesco"} :
       \E estado1 \in EstadosElig, elegible \in {"True", "False", "NaN"} :
          \E tabla \in TablesUpTo(RowsEligSin(column, estado1, elegible), 2) :
             Start(tabla,
                   (BaseCols \ {column}) \cup {"Elegible_Beneficio"},
                   Config({}, <<>>, Tarifas_0_59_30_99))

SpecElig == InitElig /\ [][Next]_vars

(***************************************************************************)
(* Inputs for the premium stage: one household, rows that differ in age    *)
(* and plan, and tariff configurations of at most two ranges.              *)
(***************************************************************************)
MaxRowsTar == 1

EdadesTar == {NumV(40, 0), StrV(<<"7","0">>), StrV(<<"x">>), NaNV}

PlanesTar == {<<"A">>, <<"a"," ">>, <<"B">>, <<" ">>, NULL}

RowsTar ==
  {Row(K1, E_Soltero, T_Hijo, edad, plan, P_Salud_Sura_Clasica, E_Soltero,
       "False", "") :
     edad \in EdadesTar, plan \in PlanesTar}

\* The same rows in a sheet that already has a 'Prima Neta' column.
RowsTarConPrima == {[r EXCEPT !.Prima_Neta = NumV(999, 0)] : r \in RowsTar}

RangosTar ==
  {<<"0",",","5","9">>, <<"3","0",","," ","9","9">>, <<"x",",","9","9">>,
   <<"5","9">>}

ValoresTar ==
  {<<[plan |-> <<"A">>, valor |-> NumV(100, 0)]>>,
   <<[plan |-> <<"a">>, valor |-> NumV(200, 0)],
     [plan |-> <<"B">>, valor |-> NumV(300, 0)]>>,
   <<[plan |-> <<" ">>, valor |-> NumV(1, 0)]>>}

EntradasTar == [rango : RangosTar, valores : ValoresTar]

\* Ordered dictionaries of at most two ranges: the keys differ.
TarifasTar ==
  {<<>>}
  \cup {<<e>> : e \in EntradasTar}
  \cup {par \in {<<e1, e2>> : e1 \in EntradasTar, e2 \in EntradasTar} :
          par[1].rango # par[2].rango}

InitTarifa ==
  \E tarifas \in TarifasTar :
     \/ \E tabla \in TablesUpTo(RowsTar, MaxRowsTar) :
           Start(tabla, BaseCols, Config({}, <<>>, tarifas))
     \/ \E tabla \in TablesUpTo(RowsTarConPrima, MaxRowsTar) :
           Start(tabla, BaseCols \cup {"Prima Neta"}, Config({}, <<>>, tarifas))

SpecTarifa == InitTarifa /\ [][Next]_vars

(***************************************************************************)
(* Inputs for the benefit valuation: households that differ in kinship,    *)
(* plan and group text, rows without a household key, and sheets without   *)
(* the household-key column.                                               *)
(***************************************************************************)
MaxRowsBen == 4

GruposBen == {E_Soltero, E_Casado}

RowsBen(grupo) ==
  {Row(K1, grupo, parentesco, NumV(40, 0), plan, P_Salud_Sura_Clasica, grupo,
       "False", "") :
     parentesco \in {T_Titular, T_Conyuge_Companero_a, T_Hijo},
     plan \in {<<"2","6","6">>, <<"9","9","9">>}}
  \cup
  {Row(NULL, grupo, T_Hijo, NumV(40, 0), <<"2","6","6">>,
       P_Salud_Sura_Clasica, grupo, "False", ""),
   Row(K2, grupo, T_Padre, NumV(40, 0), <<"2","6","6">>,
       P_Salud_Sura_Clasica, grupo, "False", "")}

InitBenef ==
  \/ \E grupo \in GruposBen :
       \E tabla \in TablesUpTo(RowsBen(grupo), MaxRowsBen) :
          Start(tabla, BaseCols, Config({}, <<>>, Tarifas_0_59_30_99))
  \/ \E grupo \in GruposBen :
       \E tabla \in TablesUpTo(
                      {[r EXCEPT !.Identificacion_Titular = NULL] :
                         r \in RowsBen(grupo)}, 2) :
          Start(tabla, BaseCols \ {"Identificacion_Titular"},
                Config({}, <<>>, Tarifas_0_59_30_99))

SpecBenef == InitBenef /\ [][Next]_vars

(***************************************************************************)
(* Inputs for a whole run: single households, sheets with the Tipo and     *)
(* Poliza columns, rows an exclusion list removes, rows with a missing     *)
(* kinship, and a configuration with or without a plan discount.           *)
(***************************************************************************)
MaxRowsRun == 4

RunCols == BaseCols \cup {"Tipo", "Poliza"}

RowRun(key, parentesco, tipo) ==
  [Row(key, E_Soltero, parentesco, NumV(40, 0), <<"2","6","6">>,
       P_Salud_Sura_Clasica, E_Soltero, "False", "")
     EXCEPT !.Tipo = tipo, !.Poliza = <<"P">>]

RowsRun ==
  {RowRun(K1, T_Hijo, <<"A">>), RowRun(K1, T_Hijo, <<"X">>),
   RowRun(K1, T_Padre, <<"A">>), RowRun(K1, NULL, <<"A">>),
   RowRun(K2, T_Hijo, <<"A">>)}

PlanesRun ==
  <<[plan |-> <<"2","6","6">>, poliza |-> <<"P">>, valor |-> NumV(10, 0)]>>

ConfigsRun ==
  {[Config(parentescos, planes, Tarifas_0_59_30_99) EXCEPT !.tipos_excluir = tipos] :
     parentescos \in {{}, {T_Padre}},
     tipos \in {{}, {<<"X">>}},
     planes \in {<<>>, PlanesRun}}

InitRun ==
  \E tabla \in TablesUpTo(RowsRun, MaxRowsRun), cfg \in ConfigsRun :
     Start(tabla, RunCols, cfg)

SpecRun == InitRun /\ [][Next]_vars

(***************************************************************************)
(* Inputs for the faults of the eligibility stage: the sheets of the       *)
(* eligibility stage without earlier flags, and for some of their          *)
(* households a step at which the processing raises.                       *)
(***************************************************************************)
MaxRowsFalla == 3

PasosDeFalla == {"estado", "seleccion", "padres"}

\* The fault plans for a table: a step for each household of a set of them.
PlanesDeFalla(tabla) ==
  UNION {[hogares -> PasosDeFalla] : hogares \in SUBSET GroupKeys(tabla)}

InitFalla ==
  \E estado1 \in {E_Casado, E_Soltero} :
     \E tabla \in TablesUpTo(RowsElig(estado1, "False", ""), MaxRowsFalla) :
        \E plan \in PlanesDeFalla(tabla) :
           /\ StartUI(tabla, BaseCols, Config({}, <<>>, Tarifas_0_59_30_99),
                      Tarifas_0_59_30_99)
           /\ fallas = plan

SpecFalla == InitFalla /\ [][Next]_vars

(***************************************************************************)
(* Inputs for the tariff source: grids of the window with blank range      *)
(* keys, keys that differ in spaces only and prices that are not numbers,  *)
(* the configuration being the one gathered from the grid.                 *)
(***************************************************************************)
MaxRowsGrid == 2

RangosGrid == {<<"0",",","5","9">>, <<" ","0",",","5","9">>, <<" ">>}

ValoresGrid ==
  {<<[plan |-> <<"A">>, valor |-> NumV(100, 0)]>>,
   <<[plan |-> <<"A">>, valor |-> StrV(<<"2","0","0">>)]>>,
   <<[plan |-> <<"A">>, valor |-> StrV(<<"x">>)]>>}

EntradasGrid == [rango : RangosGrid, valores : ValoresGrid]

\* Grids of at most two ranges: the keys differ.
GridsUI ==
  {<<>>}
  \cup {<<e>> : e \in EntradasGrid}
  \cup {par \in {<<e1, e2>> : e1 \in EntradasGrid, e2 \in EntradasGrid} :
          par[1].rango # par[2].rango}

RowsGrid ==
  {Row(K1, E_Soltero, T_Hijo, NumV(40, 0), plan, P_Salud_Sura_Clasica,
       E_Soltero, "False", "") :
     plan \in {<<"A">>, <<"B">>}}

InitGrid ==
  \E ui \in GridsUI, tabla \in TablesUpTo(RowsGrid, MaxRowsGrid) :
     /\ StartUI(tabla, BaseCols, Config({}, <<>>, GatherTarifas(ui, <<>>)), ui)
     /\ fallas = <<>>

SpecGrid == InitGrid /\ [][Next]_vars

(***************************************************************************)
(* A call of _parse_numeric on its own: the argument is None, a float,     *)
(* NaN, an int or a text of at most MaxLenNum characters, or one of the    *)
(* spellings of 1234.56.                                                   *)
(***************************************************************************)
MaxLenNum == 5

AlfabetoNum == {"1", "2", ",", ".", " ", "a"}

T_1_234_56 == <<"1",".","2","3","4",",","5","6">>

T_1c234p56 == <<"1",",","2","3","4",".","5","6">>

T_1234_56 == <<"1","2","3","4",".","5","6">>

TextosNum ==
  UNION {[1..n -> AlfabetoNum] : n \in 0..MaxLenNum}
  \cup {T_1_234_56, T_1c234p56, T_1234_56, <<"a","b","c">>, <<"-","1",",","5">>}

ValoresNum ==
  {NoneV, NaNV, NumV(123456, 2), IntV(5, 0), IntV(0, 0), IntV(1, 308),
   IntV(2, 308), IntV(1, 400)}
  \cup {StrV(t) : t \in TextosNum}

InitNum ==
  /\ valor \in ValoresNum
  /\ numero = NoneV
  /\ pc = "parse_numeric"
  /\ entrada = [df |-> <<>>, cols |-> {}]
  /\ df = <<>>
  /\ cols = {}
  /\ config = Config({}, <<>>, <<>>)
  /\ config_data = Config({}, <<>>, <<>>)
  /\ ui_tarifas = <<>>
  /\ descuento_pos = <<>>
  /\ motivoLog = <<>>
  /\ error = ""
  /\ objeto = "llamador"
  /\ llamador = entrada
  /\ fallas = <<>>
  /\ SinAjenas

\* _parse_numeric(valor): it returns a value or an exception leaves it.
ParseNumericCall ==
  /\ pc = "parse_numeric"
  /\ \E r \in {ParseNumeric(valor)} :
        /\ numero' = r
        /\ pc' = IF r.k = "raise" THEN "raised" ELSE "returned"
        /\ error' = IF r.k = "raise" THEN r.s[1] ELSE ""
  /\ UNCHANGED <<valor, entrada, df, cols, config, config_data, ui_tarifas,
                 descuento_pos, motivoLog, objeto, llamador, fallas>>
  /\ UNCHANGED Ajenas

NextNum == ParseNumericCall

SpecNum == InitNum /\ [][NextNum]_vars

(***************************************************************************)
(* Properties.  A household is the set of rows that share a household key  *)
(* that is not missing.                                                    *)
(***************************************************************************)
\* The row of the caller's table a row of the working copy comes from.
Entrada(row) == entrada.df[row.origen + 1]

Hogares == GroupKeys(df)

Miembros(t) == {i \in Positions(df) : df[i].Identificacion_Titular = t}

Elegibles(t) == {i \in Miembros(t) : df[i].Elegible_Beneficio = "True"}

\* The marital text of a household's first record holds a marriage marker.
Casada(t) ==
  \E i \in Miembros(t) :
     /\ \A j \in Miembros(t) : i <= j
     /\ ~IsNull(df[i].Estado_Civil)
     /\ \/ Contains(Lower(df[i].Estado_Civil), T_casado)
        \/ Contains(Lower(df[i].Estado_Civil), T_companero)

EsPadre(i) == df[i].Parentesco \in {T_Padre, T_Madre}

EsConyuge(i) == df[i].Parentesco \in {T_Conyuge, T_Companero_a}

EsHijo(i) == df[i].Parentesco \in {T_Hijo, T_Hija}

\* Valid kinships of the Married regime.
ValidosCasada(t) == {i \in Miembros(t) : EsConyuge(i) \/ EsHijo(i)}

\* The eligibility stage has just returned.
TrasElegibilidad == pc = "descuento"

\* C3: after the eligibility stage every household has at most 3 records
\* flagged eligible.
C3_MaximoTresElegibles ==
  TrasElegibilidad =>
    \A t \in Hogares : Cardinality(Elegibles(t)) <= 3

\* C4: in a Married household (marker "casado" or "compañero") with more than
\* 3 valid-kinship members, a Spouse/CompanionPartner member is eligible and
\* no Child is eligible while a Spouse/CompanionPartner member is not.
C4_ConyugePrimero ==
  TrasElegibilidad =>
    \A t \in Hogares :
       ( /\ Casada(t)
         /\ Cardinality(ValidosCasada(t)) > 3
         /\ \E i \in Miembros(t) : EsConyuge(i) )
       => /\ \E i \in Elegibles(t) : EsConyuge(i)
          /\ \/ \A i \in Miembros(t) : EsConyuge(i) => i \in Elegibles(t)
             \/ \A i \in Miembros(t) : EsHijo(i) => i \notin Elegibles(t)

\* C5: no Child (Hijo or Hija) is eligible while a Child placed earlier in
\* the rows of the same household is ineligible.
C5_HijosEnOrden ==
  TrasElegibilidad =>
    \A t \in Hogares :
       \A i \in Miembros(t), j \in Miembros(t) :
          (i < j /\ EsHijo(i) /\ EsHijo(j) /\ j \in Elegibles(t))
          => i \in Elegibles(t)

\* C6: in a Married household every member whose kinship is Padre or Madre
\* is ineligible after the eligibility stage, whatever eligibility value the
\* record carried on entry.
C6_PadresExcluidos ==
  TrasElegibilidad =>
    \A t \in Hogares :
       Casada(t) =>
         \A i \in Miembros(t) : EsPadre(i) => df[i].Elegible_Beneficio = "False"

\* C6 happens: a Padre/Madre of a Married household entered the stage with
\* the eligibility field true and left it ineligible.
C6_Witness ==
  /\ TrasElegibilidad
  /\ \E t \in Hogares :
        /\ Casada(t)
        /\ \E i \in Miembros(t) :
              /\ EsPadre(i)
              /\ "Elegible_Beneficio" \in entrada.cols
              /\ Entrada(df[i]).Elegible_Beneficio = "True"
              /\ df[i].Elegible_Beneficio = "False"

\* The transition value a record has when the stage does not set it: the
\* value it entered with, an absent or missing one being empty.
TransicionDeEntrada(i) ==
  IF "Transicion_Estado_Civil" \in entrada.cols
     /\ Entrada(df[i]).Transicion_Estado_Civil # "NaN"
  THEN Entrada(df[i]).Transicion_Estado_Civil
  ELSE ""

\* C7: a household whose first record's marital text holds a marriage marker
\* and that has a member with kinship Padre or Madre has the transition
\* 'Soltero→Casado' on every record after the eligibility stage; the records
\* of any other household keep the transition value they entered with.
C7_Transicion ==
  TrasElegibilidad =>
    \A t \in Hogares :
       IF Casada(t) /\ \E i \in Miembros(t) : EsPadre(i)
       THEN \A i \in Miembros(t) :
               df[i].Transicion_Estado_Civil = "Soltero→Casado"
       ELSE \A i \in Miembros(t) :
               df[i].Transicion_Estado_Civil = TransicionDeEntrada(i)

\* C7 happens: a flagged household with an eligible and an ineligible record,
\* next to a household that is not flagged.
C7_Witness ==
  /\ TrasElegibilidad
  /\ \E t \in Hogares :
        /\ Casada(t)
        /\ \E i \in Miembros(t) : EsPadre(i)
        /\ Elegibles(t) # {}
        /\ Elegibles(t) # Miembros(t)
        /\ \A i \in Miembros(t) :
              df[i].Transicion_Estado_Civil = "Soltero→Casado"
  /\ \E u \in Hogares :
        /\ ~Casada(u)
        /\ \A i \in Miembros(u) : df[i].Transicion_Estado_Civil = ""

\* One of the three columns the eligibility stage needs is absent.
FaltaColumnaRequerida ==
  \E c \in {"Identificacion_Titular", "Estado_Civil", "Parentesco"} :
     c \notin entrada.cols

\* The eligibility value a record has when the stage does not set it.
ElegibleDeEntrada(i) ==
  IF "Elegible_Beneficio" \in entrada.cols
     /\ Entrada(df[i]).Elegible_Beneficio # "NaN"
  THEN Entrada(df[i]).Elegible_Beneficio
  ELSE "False"

TrasPrima == pc = "beneficios"

\* The parsed tariff table of the run, in configuration order.
TablaTarifas == ParseTarifas(TarifasFuente(config_data.tarifas, ui_tarifas))

\* The plan of a record, trimmed; empty when the cell is missing.
PlanDe(row) == IF IsNull(row.PLAN) THEN <<>> ELSE Strip(row.PLAN)

\* The ranges of the table that hold the record's age, both bounds
\* inclusive, and price its plan case-insensitively.
RangosQueCalifican(tabla, row) ==
  {k \in 1..Len(tabla) :
     /\ NumLE(tabla[k].edad_min, ParseNumeric(row.Edad))
     /\ NumLE(ParseNumeric(row.Edad), tabla[k].edad_max)
     /\ CaseFold(PlanDe(row)) \in DOMAIN tabla[k].planes}

\* C1: a record with a non-empty plan and an age that some range holds and
\* prices gets the price of the first such range in table order.
C1_PrimeraCoincidencia ==
  TrasPrima =>
    \A i \in Positions(df) :
       LET Q == RangosQueCalifican(TablaTarifas, df[i])
       IN  (PlanDe(df[i]) # <<>> /\ Q # {})
           => \E k \in Q :
                 /\ \A o \in Q : k <= o
                 /\ df[i].Prima_Neta = TablaTarifas[k].planes[CaseFold(PlanDe(df[i]))]

\* C1 happens: two overlapping ranges price the record's plan differently
\* and the record has the price of the earlier one; in another run a range
\* that holds the age but does not price the plan comes first.
C1_Witness ==
  /\ TrasPrima
  /\ \E i \in Positions(df) :
        LET Q == RangosQueCalifican(TablaTarifas, df[i])
            c == CaseFold(PlanDe(df[i]))
        IN  \/ /\ Q = {1, 2}
               /\ TablaTarifas[1].planes[c] # TablaTarifas[2].planes[c]
               /\ df[i].Prima_Neta = TablaTarifas[1].planes[c]
            \/ /\ Q = {2}
               /\ NumLE(TablaTarifas[1].edad_min, ParseNumeric(df[i].Edad))
               /\ NumLE(ParseNumeric(df[i].Edad), TablaTarifas[1].edad_max)
               /\ df[i].Prima_Neta = TablaTarifas[2].planes[c]

\* C2: in the output of a run every record has a premium in the column
\* 'Prima Neta', and the premium is 0 when the plan is empty, the age does
\* not parse or no range of the tariff table qualifies.
C2_PrimaEnCadaRegistro ==
  pc = "done" =>
    /\ "Prima Neta" \in cols
    /\ \A i \in Positions(df) :
          /\ df[i].Prima_Neta.k = "num"
          /\ ( \/ PlanDe(df[i]) = <<>>
               \/ ParseNumeric(df[i].Edad).k = "none"
               \/ RangosQueCalifican(TablaTarifas, df[i]) = {} )
             => df[i].Prima_Neta = Cero

\* The configured benefit amount of a record's (policy type, plan).
ValorConfigurado(row) ==
  ValorBeneficio(Lower(Strip(PyStr(row.TIPO_POLIZA))), Strip(PyStr(row.PLAN)))

\* C8: in the output of a run a record applies exactly when the eligibility
\* stage marked it eligible and its configured benefit amount is positive;
\* its benefit amount is then the configured value, and 0 otherwise.
C8_AplicaSiElegible ==
  pc = "done" =>
    \A i \in Positions(df) :
       /\ df[i].Aplica_Beneficio
          <=> (df[i].Elegible_Beneficio = "True" /\ ValorConfigurado(df[i]) > 0)
       /\ df[i].Porcentaje_Beneficio =
             IF df[i].Aplica_Beneficio THEN ValorConfigurado(df[i]) ELSE 0

\* The writes of a reason the valuation pass made on the record labelled idx.
EscriturasDeMotivo(idx) ==
  {j \in 1..Len(motivoLog) : motivoLog[j][1] = idx}

\* C9: when the valuation pass has returned, the reason of every record of
\* the table was written exactly once and is not empty.
C9_MotivoUnaVez ==
  pc = "final" =>
    \A i \in Positions(df) :
       /\ Cardinality(EscriturasDeMotivo(df[i].idx)) = 1
       /\ df[i].Motivo_No_Beneficio # <<>>

(***************************************************************************)
(* Properties of _parse_numeric.                                           *)
(***************************************************************************)
Devuelto == pc = "returned"

\* The text with ',' and '.' exchanged.
Intercambiar(s) ==
  [i \in 1..Len(s) |->
     IF s[i] = "," THEN "." ELSE IF s[i] = "." THEN "," ELSE s[i]]

\* C11: _parse_numeric returns 1234.56 for each of "1.234,56", "1,234.56"
\* and "1234.56", and a text that holds both ',' and '.' gives the same
\* number when the two separators exchange their roles.
C11_MismoNumero ==
  (Devuelto /\ valor.k = "str") =>
     /\ valor.s \in {T_1_234_56, T_1c234p56, T_1234_56} =>
           numero = NumV(123456, 2)
     /\ (Contains(valor.s, <<",">>) /\ Contains(valor.s, <<".">>)) =>
           numero = ParseNumeric(StrV(Intercambiar(valor.s)))

\* The arguments for which null is the documented answer: None, a blank
\* text, a text none of whose spellings float() accepts.
SinNumero(value) ==
  \/ value.k = "none"
  \/ /\ value.k = "str"
     /\ \A i \in DOMAIN candidates(Replace(Strip(value.s), " ", <<>>)) :
           PyFloat(candidates(Replace(Strip(value.s), " ", <<>>))[i]).k = "none"

\* C12: _parse_numeric never raises; it returns null for None, for a blank
\* text and for a text none of whose spellings is a number, and a number for
\* every other argument.
C12_NuncaLanza ==
  pc # "parse_numeric" =>
     /\ pc = "returned"
     /\ IF SinNumero(valor) THEN numero = NoneV
        ELSE numero.k \in {"num", "nan"}

(***************************************************************************)
(* Properties of a whole run.                                              *)
(***************************************************************************)
\* A row of the caller's table that no exclusion list of the configuration
\* removes.
Sobrevive(r) ==
  /\ ~( /\ "Parentesco" \in entrada.cols
        /\ r.Parentesco \in config.parentescos_excluir )
  /\ ~("Tipo" \in entrada.cols /\ r.Tipo \in config.tipos_excluir)
  /\ ~("Estado" \in entrada.cols /\ r.Estado \in config.estados_excluir)

Sobrevivientes == SelectSeq(entrada.df, Sobrevive)

\* The surviving rows of a household whose kinship the Single regime accepts.
ValidosSobrevivientes(t) ==
  {j \in 1..Len(Sobrevivientes) :
     /\ Sobrevivientes[j].Identificacion_Titular = t
     /\ Sobrevivientes[j].Parentesco \in {T_Padre, T_Madre, T_Hijo, T_Hija}}

Menor(a, b) == IF a <= b THEN a ELSE b

\* C13: the stages run in the order exclusion filters, eligibility, premium,
\* valuation.  From the end of the filters on, the working copy holds exactly
\* the caller's rows that no exclusion list removes, in their order; a
\* household's eligible records are counted among those rows only (a single
\* household has min(3, survivors of valid kinship) of them); and once the
\* valuation has written anything every record has its eligibility column and
\* its premium.
C13_OrdenDeEtapas ==
  /\ pc # "filtros" =>
        [i \in 1..Len(df) |-> df[i].origen]
          = [j \in 1..Len(Sobrevivientes) |-> Sobrevivientes[j].origen]
  /\ pc \in {"descuento", "prima", "beneficios", "final", "done"} =>
        \A t \in Hogares :
           ~Casada(t) =>
              Cardinality(Elegibles(t))
                = Menor(3, Cardinality(ValidosSobrevivientes(t)))
  /\ ("Aplica_Beneficio" \in cols \/ motivoLog # <<>>) =>
        /\ "Elegible_Beneficio" \in cols
        /\ \A i \in Positions(df) :
              /\ df[i].Elegible_Beneficio \in {"True", "False"}
              /\ df[i].Prima_Neta.k = "num"

\* C13 happens: a run has ended whose filters removed a child of a household
\* of four children; the three that remain are the eligible ones.
C13_Witness ==
  /\ pc = "done"
  /\ Len(df) < Len(entrada.df)
  /\ \E t \in Hogares :
        /\ Cardinality(Elegibles(t)) = 3
        /\ Cardinality({j \in 1..Len(entrada.df) :
                          /\ entrada.df[j].Identificacion_Titular = t
                          /\ entrada.df[j].Parentesco \in {T_Hijo, T_Hija}}) = 4
        /\ \A i \in Miembros(t) : df[i].Aplica_Beneficio

\* C14: for every table and every configuration a run ends normally: no
\* stage raises to the caller, whatever rows the filters removed and whatever
\* cells are missing.
C14_TerminaNormal == pc # "raised" /\ error = ""

\* C15: a run writes into its own working copy only: during the run and
\* after it returned, the table the caller passed has the rows, the columns
\* and the cell values it had at the call.
C15_TablaDelLlamador == llamador = entrada

\* C15 happens: a run whose filters removed nothing has returned; its result
\* is the copy of line 852, with columns and cell values the caller's table
\* does not have.
C15_Witness ==
  /\ pc = "done"
  /\ objeto = "copia"
  /\ Len(df) = Len(entrada.df)
  /\ cols # entrada.cols
  /\ \E i \in Positions(df) :
        df[i].Elegible_Beneficio # entrada.df[i].Elegible_Beneficio

\* C16: the output of a run depends on its arguments only: the premium stage,
\* the one stage that reads the application's stored configuration and the
\* grid of the window, returns what it returns when given the tariff table of
\* the configuration argument alone, and no stage changes the configuration,
\* the stored configuration or the grid, so that nothing of a run reaches the
\* next one.
C16_SoloArgumentos ==
  [][ /\ pc = "prima" =>
           \E r \in {AsignarPrimaNeta(df, cols, config.tarifas)} :
              df' = r.df /\ cols' = r.cols
      /\ config' = config
      /\ config_data' = config_data
      /\ ui_tarifas' = ui_tarifas ]_vars

\* C16 happens: a run has ended, its records priced, while the grid of the
\* window differs from the tariff table of the configuration argument.
C16_Witness ==
  /\ pc = "done"
  /\ ui_tarifas # config.tarifas
  /\ \E i \in Positions(df) : NumLE(NumV(1, 0), df[i].Prima_Neta)

(***************************************************************************)
(* Properties of the faults of the eligibility stage.                      *)
(***************************************************************************)
\* The household of row i of the working copy raises at some step.
ConFalla(i) == PasoDeFalla(fallas, df[i].Identificacion_Titular) # ""

\* The fault is caught: the stage returns and the run goes on.
FallaAtrapada == pc' = "descuento" /\ error' = ""

\* Every record of a household that does not raise gets what a stage without
\* any fault gives it.
OtrosHogaresIguales ==
  \E r \in FiltrarBeneficiarios(df, cols, <<>>) :
     \A i \in Positions(df) :
        ~ConFalla(i) =>
           /\ df'[i].Elegible_Beneficio = r.df[i].Elegible_Beneficio
           /\ df'[i].Transicion_Estado_Civil = r.df[i].Transicion_Estado_Civil

\* Every record of a household that raises is left ineligible.
HogarConFallaNoElegible ==
  \A i \in Positions(df) : ConFalla(i) => df'[i].Elegible_Beneficio = "False"

GrupoTexto(t) ==
  Lower(CellStr(cols, "Grupo",
                df[CHOOSE i \in Miembros(t) : \A j \in Miembros(t) : i <= j].Grupo))

\* The mode of a household.
ModoDe(t) ==
  Modo(GrupoTexto(t),
       [j \in 1..Len(Members(df, t)) |->
          Lower(PyStr(df[Members(df, t)[j]].Parentesco))])

\* The reason of the first case that matches record i, in the order (a) no
\* configured value, (b) married group and Padre/Madre, (c) single group and
\* spouse or partner, (d) generic.
MotivoEsperado(i) ==
  LET t == df[i].Identificacion_Titular
      parentesco == Lower(PyStr(df[i].Parentesco))
  IN  IF ValorConfigurado(df[i]) = 0 THEN MotivoSinValor
      ELSE IF /\ Contains(GrupoTexto(t), T_casado)
              /\ Contains(parentesco, T_padre) \/ Contains(parentesco, T_madre)
      THEN MotivoCasadoPadres
      ELSE IF /\ Contains(GrupoTexto(t), T_soltero)
              /\ \/ Contains(parentesco, T_conyuge)
                 \/ Contains(parentesco, T_conyuge_sin_tilde)
                 \/ Contains(parentesco, T_companero)
      THEN MotivoSolteroConyuge
      ELSE MotivoFueraPrioridad(ModoDe(t))

\* C18: when the valuation pass has returned, every record of a household
\* that does not apply carries the reason of the first matching case in the
\* order (a), (b), (c), (d); a record without a configured benefit value
\* carries the 'no configured value' reason.
C18_MotivoPorOrden ==
  pc = "final" =>
    \A i \in Positions(df) :
       (~IsNull(df[i].Identificacion_Titular) /\ ~df[i].Aplica_Beneficio)
       => df[i].Motivo_No_Beneficio = MotivoEsperado(i)

(***************************************************************************)
(* Properties of malformed tariff entries.                                 *)
(***************************************************************************)
\* A range key that is not two comma-separated numbers.
Malformada(entry) ==
  LET partes == Split(entry.rango, ",")
  IN  \/ Len(partes) # 2
      \/ ParseNumeric(StrV(Strip(partes[1]))).k = "none"
      \/ ParseNumeric(StrV(Strip(partes[2]))).k = "none"

\* The tariff table without its malformed entries, order unchanged.
SinMalformadas(tarifas) == SelectSeq(tarifas, LAMBDA entry : ~Malformada(entry))

\* C19: the premium stage does not raise on a malformed tariff entry, and it
\* gives every record the premium it gives with the tariff table from which
\* the malformed entries were removed, the others in their order.
C19_MalformadaDescartada ==
  [][pc = "prima" =>
       /\ pc' = "beneficios"
       /\ error' = ""
       /\ \E r \in {AsignarPrimaNeta(
                      df, cols,
                      SinMalformadas(
                        TarifasFuente(config_data.tarifas, ui_tarifas)))} :
             df' = r.df /\ cols' = r.cols]_vars

\* C19 happens: the tariff table starts with a malformed entry, a well-formed
\* one follows, and a record has been priced from it.
C19_Witness ==
  /\ pc = "beneficios"
  /\ Len(config.tarifas) = 2
  /\ Malformada(config.tarifas[1])
  /\ ~Malformada(config.tarifas[2])
  /\ \E i \in Positions(df) : NumLE(NumV(1, 0), df[i].Prima_Neta)

\* C20: when the table lacks the household-key, the kinship or the
\* marital-status column, the premium stage and the valuation stage still
\* process every record: in the output each record has its premium from the
\* tariff table, its applies flag, its benefit amount and a reason that is
\* not empty.
C20_EtapasSinColumna ==
  (pc = "done" /\ FaltaColumnaRequerida) =>
     /\ {"Prima Neta", "Aplica_Beneficio", "Porcentaje_Beneficio",
         "Motivo_No_Beneficio"} \subseteq cols
     /\ \A i \in Positions(df) :
           /\ df[i].Prima_Neta = PrimaDeFila(TablaTarifas, df[i])
           /\ df[i].Porcentaje_Beneficio =
                 IF df[i].Aplica_Beneficio THEN ValorConfigurado(df[i]) ELSE 0
           /\ df[i].Motivo_No_Beneficio # <<>>

(***************************************************************************)
(* Inputs for the household regime: two households whose records carry     *)
(* marital texts of their own, so that the text of a household's first     *)
(* record and the texts of its other records can differ.                   *)
(***************************************************************************)
MaxRowsEstado == 3

RowsEstado ==
  {Row(key, estado, parentesco, NumV(40, 0), <<"2","6","6">>,
       P_Salud_Sura_Clasica, E_Soltero, "False", "") :
     key \in {K1, K2}, estado \in {E_Casado, E_Soltero},
     parentesco \in {T_Conyuge, T_Hijo, T_Padre}}

InitEstado ==
  \E tabla \in TablesUpTo(RowsEstado, MaxRowsEstado) :
     Start(tabla, BaseCols, Config({}, <<>>, Tarifas_0_59_30_99))

SpecEstado == InitEstado /\ [][Next]_vars

\* The first record of its household, in table order.
EsPrimero(tabla, i) ==
  \A j \in 1..(i - 1) :
     tabla[j].Identificacion_Titular # tabla[i].Identificacion_Titular

\* The tables that differ from tabla only in marital-status cells of records
\* that are not the first of their household.
Variantes(tabla) ==
  {[i \in 1..Len(tabla) |-> [tabla[i] EXCEPT !.Estado_Civil = e[i]]] :
     e \in {f \in [1..Len(tabla) -> {E_Casado, E_Soltero}] :
              \A i \in 1..Len(tabla) :
                 EsPrimero(tabla, i) => f[i] = tabla[i].Estado_Civil}}

\* The eligibility flag and the transition value of every record.
Banderas(tabla) ==
  [i \in 1..Len(tabla) |->
     <<tabla[i].Elegible_Beneficio, tabla[i].Transicion_Estado_Civil>>]

\* C21: the regime of a household is decided by the marital-status text of
\* its first record only: whatever the eligibility stage made of the input
\* table, it can make the same eligibility flags and transition values of
\* every table that differs from the input only in the marital-status cells
\* of records that are not the first of their household.
C21_SoloPrimerRegistro ==
  pc = "descuento" =>
     \A v \in Variantes(entrada.df) :
        Banderas(df) \in
          {Banderas(r.df) :
             r \in FiltrarBeneficiarios(
                      FiltrosExclusion(v, entrada.cols, config),
                      entrada.cols, fallas)}

\* A household whose first record is single and whose second is married came
\* out of the stage with its father eligible and no transition.
C21_Witness ==
  /\ pc = "descuento"
  /\ Len(df) >= 2
  /\ df[1].Identificacion_Titular = df[2].Identificacion_Titular
  /\ df[1].Estado_Civil = E_Soltero
  /\ df[2].Estado_Civil = E_Casado
  /\ df[2].Parentesco = T_Padre
  /\ df[2].Elegible_Beneficio = "True"
  /\ df[2].Transicion_Estado_Civil = ""

\* The eligibility stage set the transition flag on household t.
ConTransicion(t) == Casada(t) /\ \E i \in Miembros(t) : EsPadre(i)

\* A reason that mentions the transition: it names the transition regime or
\* is the reason that says a transition is assumed.
MencionaTransicion(motivo) ==
  \/ \E k \in 1..Len(motivo) : motivo[k] = "Transición Soltero → Casado"
  \/ motivo = MotivoSolteroConyuge

\* The records other than the Father/Mother members of household t.
Otros(tabla, t) ==
  {i \in 1..Len(tabla) :
     ~(tabla[i].Identificacion_Titular = t
       /\ tabla[i].Parentesco \in {T_Padre, T_Madre})}

\* The eligibility flags of the records at the positions otros, in order.
ElegibilidadDe(tabla, otros) ==
  With(KeepFrom(tabla, otros, 1), LAMBDA q :
    [k \in 1..Len(q) |-> q[k].Elegible_Beneficio])

\* The flag changes no eligibility in household t: its other members, and
\* every other record, are flagged as the stage can flag them in the table
\* without the Father/Mother members of t, where no flag is set on t.
MismaElegibilidadSinTransicion(t) ==
  ElegibilidadDe(df, Otros(df, t)) \in
    {ElegibilidadDe(r.df, 1..Len(r.df)) :
       r \in FiltrarBeneficiarios(
                KeepFrom(entrada.df, Otros(entrada.df, t), 1),
                entrada.cols, fallas)}

\* C22: in a finished run, for every household on which the eligibility
\* stage set the transition flag (marriage marker plus a Father/Mother
\* member), the reason valuation wrote on each record of the household
\* mentions the transition, and the other members are as eligible as they
\* are for the same household without the flag.
C22_TransicionEnMotivo ==
  pc = "done" =>
     \A t \in Hogares :
        ConTransicion(t) =>
           /\ \A i \in Miembros(t) :
                 MencionaTransicion(df[i].Motivo_No_Beneficio)
           /\ MismaElegibilidadSinTransicion(t)

\* The valid kinships of the regime of household t.
ValidosDe(t) ==
  IF Casada(t) THEN ValidosCasada(t)
  ELSE {i \in Miembros(t) : EsPadre(i) \/ EsHijo(i)}

\* The rank of a valid kinship in the regime of household t.
RangoDe(t, i) ==
  IF Casada(t)
  THEN PrioridadDe(<<T_Conyuge, T_Companero_a, T_Hijo, T_Hija>>, df[i].Parentesco)
  ELSE PrioridadDe(<<T_Padre, T_Madre, T_Hijo, T_Hija>>, df[i].Parentesco)

\* C23: after the eligibility stage the eligible records of a household are
\* valid-kinship records of its regime (Married: spouse/companion, child;
\* Single: father, mother, child), they are all the valid records when
\* these are at most 3 and otherwise 3 of them that no unselected valid
\* record outranks; every other record of the household is ineligible, also
\* one that entered the stage with the eligibility field true.
C23_SoloSeleccionados ==
  (TrasElegibilidad /\ ~FaltaColumnaRequerida) =>
     \A t \in Hogares :
        /\ Elegibles(t) \subseteq ValidosDe(t)
        /\ IF Cardinality(ValidosDe(t)) <= 3
           THEN Elegibles(t) = ValidosDe(t)
           ELSE /\ Cardinality(Elegibles(t)) = 3
                /\ \A a \in Elegibles(t) : \A b \in ValidosDe(t) \ Elegibles(t) :
                      RangoDe(t, a) <= RangoDe(t, b)

(***************************************************************************)
(* Inputs for the exclusion filters: one household, sheets with or without *)
(* the Tipo and Estado columns, and configurations whose three exclusion   *)
(* lists are empty or hold one value.                                      *)
(***************************************************************************)
MaxRowsFiltro == 3

RowsFiltro ==
  {[Row(K1, E_Soltero, parentesco, NumV(40, 0), <<"2","6","6">>,
        P_Salud_Sura_Clasica, E_Soltero, "False", "")
      EXCEPT !.Tipo = tipo, !.Estado = estado] :
     parentesco \in {T_Hijo, T_Padre},
     tipo \in {<<"A">>, <<"X">>},
     estado \in {<<"V">>, <<"R">>}}

\* The rows of a sheet that has neither the Tipo nor the Estado column.
RowsFiltroSin == {[r EXCEPT !.Tipo = NULL, !.Estado = NULL] : r \in RowsFiltro}

ConfigsFiltro ==
  {[Config(parentescos, <<>>, Tarifas_0_59_30_99)
      EXCEPT !.tipos_excluir = tipos, !.estados_excluir = estados] :
     parentescos \in {{}, {T_Padre}},
     tipos \in {{}, {<<"X">>}},
     estados \in {{}, {<<"R">>}}}

InitFiltro ==
  \/ \E tabla \in TablesUpTo(RowsFiltro, MaxRowsFiltro), cfg \in ConfigsFiltro :
        Start(tabla, BaseCols \cup {"Tipo", "Estado"}, cfg)
  \/ \E tabla \in TablesUpTo(RowsFiltroSin, MaxRowsFiltro), cfg \in ConfigsFiltro :
        Start(tabla, BaseCols, cfg)

SpecFiltro == InitFiltro /\ [][Next]_vars

\* The filter of a column removes nothing: its list is empty or the table
\* has no such column.
FiltroInactivo(column, exclusions) ==
  exclusions = {} \/ column \notin entrada.cols

\* C24: the output of a run holds no record whose kinship, type or status is
\* in the exclusion list of that column, it holds every record of the
\* caller's table that has no excluded value, in the original relative
\* order, and when each filter has an empty list or no column in the table
\* the output holds every record.
C24_FiltrosDeExclusion ==
  pc = "done" =>
     /\ \A i \in Positions(df) :
           /\ "Parentesco" \in cols => df[i].Parentesco \notin config.parentescos_excluir
           /\ "Tipo" \in cols => df[i].Tipo \notin config.tipos_excluir
           /\ "Estado" \in cols => df[i].Estado \notin config.estados_excluir
     /\ [i \in 1..Len(df) |-> df[i].origen]
          = [j \in 1..Len(Sobrevivientes) |-> Sobrevivientes[j].origen]
     /\ \A i \in Positions(df) :
           /\ df[i].Parentesco = Entrada(df[i]).Parentesco
           /\ df[i].Tipo = Entrada(df[i]).Tipo
           /\ df[i].Estado = Entrada(df[i]).Estado
     /\ ( /\ FiltroInactivo("Parentesco", config.parentescos_excluir)
          /\ FiltroInactivo("Tipo", config.tipos_excluir)
          /\ FiltroInactivo("Estado", config.estados_excluir) )
        => Len(df) = Len(entrada.df)

\* C24 happens: a run has ended in which the type filter removed the first
\* of three records, the status filter the third, and the second is the
\* output.
C24_Witness ==
  /\ pc = "done"
  /\ Len(entrada.df) = 3
  /\ Len(df) = 1
  /\ entrada.df[1].Tipo = <<"X">>
  /\ entrada.df[3].Estado = <<"R">>
  /\ df[1].origen = 1
  /\ config.tipos_excluir # {}
  /\ config.estados_excluir # {}

(***************************************************************************)
(* Inputs for the plan discount: one household, records whose policy       *)
(* matches the configured plan entry as written, matches it up to case and *)
(* blanks, or does not match, and a type filter that removes records.      *)
(***************************************************************************)
MaxRowsDescuento == 3

RowsDescuento ==
  {[Row(K1, E_Soltero, T_Hijo, NumV(40, 0), <<"2","6","6">>,
        P_Salud_Sura_Clasica, E_Soltero, "False", "")
      EXCEPT !.Tipo = tipo, !.Poliza = poliza] :
     tipo \in {<<"A">>, <<"X">>},
     poliza \in {<<"P">>, <<" ","p">>, <<"Q">>}}

ConfigsDescuento ==
  {[Config({}, PlanesRun, Tarifas_0_59_30_99) EXCEPT !.tipos_excluir = tipos] :
     tipos \in {{}, {<<"X">>}}}

InitDescuento ==
  \E tabla \in TablesUpTo(RowsDescuento, MaxRowsDescuento),
     cfg \in ConfigsDescuento :
        Start(tabla, RunCols, cfg)

SpecDescuento == InitDescuento /\ [][Next]_vars

\* The value of the last configured plan entry whose plan and
\* policy equal the record's up to case and surrounding blanks, NoneV when
\* there is none.
DescuentoConfigurado(row) ==
  PlanMappingGet(config.planes,
                 <<NormalizeString(row.PLAN), NormalizeString(row.Poliza)>>)

\* C27: the plan discount is aligned: no run writes a discount outside the
\* table, and in the output of a run every record whose plan and policy
\* match a configured plan entry has that entry's value in 'Descuento POS'
\* and every other record has none, also when exclusion filters removed
\* rows that came before it.
C27_DescuentoAlineado ==
  /\ error # "IndexError"
  /\ pc = "done" =>
        \A i \in Positions(df) :
           df[i].Descuento_POS = DescuentoConfigurado(df[i])

(***************************************************************************)
(* Saving and loading the configuration (AppConfig.to_dict, from_dict,     *)
(* PlanEntry.to_dict, from_dict).  A dict is a sequence of entries in      *)
(* insertion order; only the fields the run reads are kept (the exclusion  *)
(* lists, the plan entries and the tariff table).                          *)
(***************************************************************************)
Infinito == [k |-> "inf", m |-> 0, e |-> 0, s |-> <<>>]

\* Lines 97-101: float(item[0]), infinity when float() refuses the key.
sort_age_key(rango) ==
  With(PyFloat(rango), LAMBDA f : IF f.k = "num" THEN f ELSE Infinito)

\* a <= b on sort keys.
ClaveLE(a, b) ==
  \/ b.k = "inf"
  \/ a.k = "num" /\ b.k = "num" /\ NumLE(a, b)

\* sorted() is stable: an item goes after every item that is not greater.
RECURSIVE SortedTarifas(_)
SortedTarifas(items) ==
  IF items = <<>> THEN <<>>
  ELSE With(SortedTarifas(SubSeq(items, 1, Len(items) - 1)), LAMBDA hechos :
       With(items[Len(items)], LAMBDA x :
       With(Cardinality({i \in 1..Len(hechos) :
                           ClaveLE(sort_age_key(hechos[i].rango),
                                   sort_age_key(x.rango))}),
            LAMBDA n :
         SubSeq(hechos, 1, n) \o <<x>> \o SubSeq(hechos, n + 1, Len(hechos)))))

\* Line 106: the prices of a range sorted by plan name, a plan name being a
\* key of the dict and so there once.
RECURSIVE SortedPlanes(_)
SortedPlanes(valores) ==
  IF valores = <<>> THEN <<>>
  ELSE With(SortedPlanes(SubSeq(valores, 1, Len(valores) - 1)), LAMBDA hechos :
       With(valores[Len(valores)], LAMBDA x :
       With(Cardinality({i \in 1..Len(hechos) : TextLess(hechos[i].plan, x.plan)}),
            LAMBDA n :
         SubSeq(hechos, 1, n) \o <<x>> \o SubSeq(hechos, n + 1, Len(hechos)))))

\* Lines 64-65.
PlanEntryToDict(entry) ==
  [PLAN |-> entry.plan, POLIZA |-> entry.poliza, VALOR |-> entry.valor]

\* float(valor) for a float or a text.
PyFloatDe(v) == IF v.k = "str" THEN PyFloat(v.s) ELSE v

\* data.get(k1) or data.get(k2) or data.get(k3) or otro.
PrimeroNoVacio(data, claves, vacio, otro) ==
  With(SelectSeq(claves, LAMBDA k : k \in DOMAIN data /\ data[k] # vacio),
       LAMBDA llenas : IF llenas = <<>> THEN otro ELSE data[llenas[1]])

\* Lines 67-78.
PlanEntryFromDict(data) ==
  IF {"PLAN", "POLIZA", "VALOR"} \subseteq DOMAIN data
  THEN [plan |-> data.PLAN, poliza |-> data.POLIZA,
        valor |-> PyFloatDe(data.VALOR)]
  ELSE [plan   |-> PrimeroNoVacio(data, <<"plan", "Plan", "PLAN">>, <<>>, <<>>),
        poliza |-> PrimeroNoVacio(data, <<"poliza", "Poliza", "POLIZA">>, <<>>, <<>>),
        valor  |-> PyFloatDe(PrimeroNoVacio(data, <<"valor", "Valor", "VALOR">>,
                                            NumV(0, 0), NumV(0, 0)))]

\* Lines 96-124.
AppConfigToDict(c) ==
  [Parentescos_Excluir |-> c.parentescos_excluir,
   Tipos_Excluir       |-> c.tipos_excluir,
   Estados_Excluir     |-> c.estados_excluir,
   planes  |-> [j \in 1..Len(c.planes) |-> PlanEntryToDict(c.planes[j])],
   tarifas |-> With(SortedTarifas(c.tarifas), LAMBDA ordenadas :
                 [j \in 1..Len(ordenadas) |->
                    [rango   |-> ordenadas[j].rango,
                     valores |-> SortedPlanes(ordenadas[j].valores)]])]

\* Lines 147-151: the prices float() accepts.
PreciosCargados(valores) ==
  With(SelectSeq(valores, LAMBDA x : PyFloatDe(x.valor).k # "none"),
       LAMBDA buenos :
         [j \in 1..Len(buenos) |->
            [plan |-> buenos[j].plan, valor |-> PyFloatDe(buenos[j].valor)]])

\* Lines 126-166.
AppConfigFromDict(data) ==
  [parentescos_excluir |-> data.Parentescos_Excluir,
   tipos_excluir       |-> data.Tipos_Excluir,
   estados_excluir     |-> data.Estados_Excluir,
   planes  |-> [j \in 1..Len(data.planes) |-> PlanEntryFromDict(data.planes[j])],
   tarifas |-> [j \in 1..Len(data.tarifas) |->
                  [rango   |-> data.tarifas[j].rango,
                   valores |-> PreciosCargados(data.tarifas[j].valores)]]]

\* save_configuration (lines 663-670): the configuration gathered from the
\* window is stored and written to config.json.
SaveConfiguration ==
  /\ pc = "guardar"
  /\ archivo' = AppConfigToDict(config)
  /\ config_data' = config
  /\ pc' = "cargar"
  /\ UNCHANGED <<config, ui_tarifas, pivot_app, data_manager, llamada>>
  /\ UNCHANGED Corrida

\* load_configuration (lines 684-688), in the next session.
LoadConfiguration ==
  /\ pc = "cargar"
  /\ config_data' = AppConfigFromDict(archivo)
  /\ pc' = "cargado"
  /\ UNCHANGED <<config, ui_tarifas>>
  /\ UNCHANGED Ajenas
  /\ UNCHANGED Corrida

NextConfig == SaveConfiguration \/ LoadConfiguration

MaxRangosCfg == 2

\* The sequences of at most max distinct members of a set.
SeqsDistintas(S, max) ==
  UNION {{q \in [1..n -> S] : \A i, j \in 1..n : i # j => q[i] # q[j]} :
           n \in 0..max}

\* The prices one range can hold: the plans "b" and "B", which the premium
\* stage takes for one plan, in either order.
ValoresCfg ==
  UNION {{[j \in 1..Len(ps) |-> [plan |-> ps[j], valor |-> vs[j]]] :
            vs \in [1..Len(ps) -> {NumV(100, 0), NumV(200, 0)}]} :
           ps \in SeqsDistintas({<<"b">>, <<"B">>}, 2)}

\* Range keys: two of the form "min,max" and one that is a number.
RangosCfg == {<<"0",",","5","9">>, <<"3","0",",","9","9">>, <<"4","0">>}

TarifasCfg ==
  UNION {{[j \in 1..Len(rs) |-> [rango |-> rs[j], valores |-> vs[j]]] :
            vs \in [1..Len(rs) -> ValoresCfg]} :
           rs \in SeqsDistintas(RangosCfg, MaxRangosCfg)}

InitConfig ==
  /\ \E tarifas \in TarifasCfg, planes \in {<<>>, PlanesRun},
        parentescos \in {{}, {T_Padre}} :
        /\ config = Config(parentescos, planes, tarifas)
        /\ config_data = config
        /\ ui_tarifas = tarifas
  /\ pc = "guardar"
  /\ entrada = [df |-> <<>>, cols |-> {}]
  /\ df = <<>>
  /\ cols = {}
  /\ descuento_pos = <<>>
  /\ motivoLog = <<>>
  /\ error = ""
  /\ valor = NoneV
  /\ numero = NoneV
  /\ objeto = "llamador"
  /\ llamador = entrada
  /\ fallas = <<>>
  /\ SinAjenas

SpecConfig == InitConfig /\ [][NextConfig]_vars

\* The prices of a tariff table as a set of <<range, plan, price>>.
Precios(tarifas) ==
  UNION {{<<tarifas[j].rango, tarifas[j].valores[n].plan,
            tarifas[j].valores[n].valor>> : n \in 1..Len(tarifas[j].valores)} :
           j \in 1..Len(tarifas)}

\* The range keys of the form "min,max", in the order of the table.
RangosMinMax(tarifas) ==
  SelectSeq([j \in 1..Len(tarifas) |-> tarifas[j].rango],
            LAMBDA rango : Len(Split(rango, ",")) = 2)

\* The premium the scan of the premium stage finds in a tariff table.
PrimaEn(tarifas, edad, plan) == BuscarPrima(ParseTarifas(tarifas), edad, plan)

\* C28: a configuration saved and loaded again has the exclusion lists, the
\* plan entries and the tariff prices it had, its range keys of the form
\* "min,max" are in the order they were in, and every tariff lookup gives
\* the premium it gave before the save.
C28_IdaYVuelta ==
  pc = "cargado" =>
     /\ config_data.parentescos_excluir = config.parentescos_excluir
     /\ config_data.tipos_excluir = config.tipos_excluir
     /\ config_data.estados_excluir = config.estados_excluir
     /\ config_data.planes = config.planes
     /\ Precios(config_data.tarifas) = Precios(config.tarifas)
     /\ {config_data.tarifas[j].rango : j \in 1..Len(config_data.tarifas)}
          = {config.tarifas[j].rango : j \in 1..Len(config.tarifas)}
     /\ RangosMinMax(config_data.tarifas) = RangosMinMax(config.tarifas)
     /\ \A edad \in {NumV(20, 0), NumV(40, 0), NumV(70, 0)},
           plan \in {<<"b">>, <<"B">>} :
           PrimaEn(config_data.tarifas, edad, plan)
             = PrimaEn(config.tarifas, edad, plan)

(***************************************************************************)
(* The pivot window (PivotApp, pivot_gui.py).  A column label is what      *)
(* pandas read from the header cell: a text, or a number when the cell     *)
(* holds one.  A StringVar holds a text: set() stores str(value) and get() *)
(* returns it, so that a text taken from a StringVar equals a label only   *)
(* when the label is that text.                                            *)
(*   pivot_app.columns      the labels, in the order of the sheet          *)
(*   pivot_app.fixed_vars   label -> the "fixed" checkbox                  *)
(*   pivot_app.pivot_vars   label -> the "pivot" checkbox                  *)
(*   pivot_app.pair_vars    label -> the text of the pairing menu          *)
(*   pivot_app.filas        the number of rows of the sheet                *)
(*   pivot_app.resultado    the rows the last handler wrote to             *)
(*                          resultado.xlsx, <<>> when it wrote none        *)
(*   pivot_app.aviso        the title of the message box the last handler  *)
(*                          showed, "" when it showed none                 *)
(***************************************************************************)
Etiqueta(texto) == [tipo |-> "str", texto |-> texto]

EtiquetaNumero(texto) == [tipo |-> "int", texto |-> texto]

Ninguno == Etiqueta("Ninguno")

\* Line 201: the pivot columns, in the order of the sheet.
SelectedPivotColumns(columns, pivot_vars) ==
  SelectSeq(columns, LAMBDA c : pivot_vars[c])

\* Lines 229-257, after line 225 stored the new text: pair_vars as the call
\* leaves it.  previous is a text, new_partner a menu option.
ApplyPairChange(pair_vars, pivot_vars, column, previous, new_partner) ==
  With(IF /\ previous # "Ninguno"
          /\ Etiqueta(previous) \in DOMAIN pair_vars
          /\ Etiqueta(pair_vars[Etiqueta(previous)]) = column
       THEN [pair_vars EXCEPT ![Etiqueta(previous)] = "Ninguno"]
       ELSE pair_vars, LAMBDA pv1 :
    IF new_partner = Ninguno THEN pv1
    ELSE IF new_partner \notin DOMAIN pv1 \/ ~pivot_vars[new_partner]
    THEN [pv1 EXCEPT ![column] = "Ninguno"]
    ELSE
      With(pv1[new_partner], LAMBDA partner_current :
      With(IF partner_current # "Ninguno" /\ Etiqueta(partner_current) # column
           THEN With([pv1 EXCEPT ![new_partner] = "Ninguno"], LAMBDA pv2 :
                  IF /\ Etiqueta(partner_current) \in DOMAIN pv2
                     /\ Etiqueta(pv2[Etiqueta(partner_current)]) = new_partner
                  THEN [pv2 EXCEPT ![Etiqueta(partner_current)] = "Ninguno"]
                  ELSE pv2)
           ELSE pv1, LAMBDA pv3 :
        IF Etiqueta(pv3[new_partner]) # column
        THEN [pv3 EXCEPT ![new_partner] = column.texto]
        ELSE pv3)))

\* Lines 219-227 with update_relations true.
SetPair(pair_vars, pivot_vars, column, value) ==
  IF Etiqueta(pair_vars[column]) = value THEN pair_vars
  ELSE ApplyPairChange([pair_vars EXCEPT ![column] = value.texto],
                       pivot_vars, column, pair_vars[column], value)

\* A faulty _set_pair: it stores the text and leaves the partner alone.
SetPairSinRelaciones(pair_vars, pivot_vars, column, value) ==
  [pair_vars EXCEPT ![column] = value.texto]

\* Line 273: the options of the menu of a column.
Options(columns, pivot_vars, column) ==
  <<Ninguno>> \o SelectSeq(SelectedPivotColumns(columns, pivot_vars),
                            LAMBDA c : c # column)

\* Lines 265-287: every menu is rebuilt, and a pairing text that is not
\* among the options of its menu is reset, column after column.
RECURSIVE RefreshPairOptions(_, _, _, _)
RefreshPairOptions(columns, pivot_vars, pair_vars, i) ==
  IF i > Len(columns) THEN pair_vars
  ELSE RefreshPairOptions(
         columns, pivot_vars,
         IF Etiqueta(pair_vars[columns[i]])
              \in SeqRange(Options(columns, pivot_vars, columns[i]))
         THEN pair_vars
         ELSE SetPair(pair_vars, pivot_vars, columns[i], Ninguno),
         i + 1)

\* Lines 212-214: the pairings that name the column are cleared, in the
\* order of the sheet.
RECURSIVE ClearPartners(_, _, _, _, _)
ClearPartners(columns, pivot_vars, pair_vars, column, i) ==
  IF i > Len(columns) THEN pair_vars
  ELSE ClearPartners(
         columns, pivot_vars,
         IF Etiqueta(pair_vars[columns[i]]) = column
         THEN SetPair(pair_vars, pivot_vars, columns[i], Ninguno)
         ELSE pair_vars,
         column, i + 1)

\* Lines 203-217, pivot_vars holding the new state of the checkbox.
OnPivotToggle(columns, pivot_vars, pair_vars, column) ==
  RefreshPairOptions(
    columns, pivot_vars,
    IF pivot_vars[column] THEN pair_vars
    ELSE SetPair(ClearPartners(columns, pivot_vars, pair_vars, column, 1),
                 pivot_vars, column, Ninguno),
    1)

\* Lines 259-263.
OnOptionMenuSelect(columns, pivot_vars, pair_vars, column, selection) ==
  RefreshPairOptions(columns, pivot_vars,
                     SetPair(pair_vars, pivot_vars, column, selection), 1)

\* A faulty _build_groups: the partner of a group is not marked as visited.
RECURSIVE BuildGroupsSinVisitar(_, _, _, _)
BuildGroupsSinVisitar(pair_vars, pivot_columns, i, visited) ==
  IF i > Len(pivot_columns) THEN <<>>
  ELSE With(pivot_columns[i], LAMBDA column :
       With(Etiqueta(pair_vars[pivot_columns[i]]), LAMBDA partner :
         IF /\ partner # Ninguno
            /\ partner \in SeqRange(pivot_columns)
            /\ partner \in DOMAIN pair_vars
            /\ Etiqueta(pair_vars[partner]) = column
         THEN <<(<<column, partner>>)>>
              \o BuildGroupsSinVisitar(pair_vars, pivot_columns, i + 1, visited)
         ELSE <<(<<column>>)>>
              \o BuildGroupsSinVisitar(pair_vars, pivot_columns, i + 1,
                                       visited)))

\* Lines 289-309.
RECURSIVE BuildGroups(_, _, _, _)
BuildGroups(pair_vars, pivot_columns, i, visited) ==
  IF i > Len(pivot_columns) THEN <<>>
  ELSE With(pivot_columns[i], LAMBDA column :
       With(Etiqueta(pair_vars[pivot_columns[i]]), LAMBDA partner :
         IF column \in visited
         THEN BuildGroups(pair_vars, pivot_columns, i + 1, visited)
         ELSE IF /\ partner # Ninguno
                 /\ partner \in SeqRange(pivot_columns)
                 /\ partner \in DOMAIN pair_vars
                 /\ Etiqueta(pair_vars[partner]) = column
         THEN <<(<<column, partner>>)>>
              \o BuildGroups(pair_vars, pivot_columns, i + 1,
                             visited \cup {column, partner})
         ELSE <<(<<column>>)>>
              \o BuildGroups(pair_vars, pivot_columns, i + 1,
                             visited \cup {column})))

\* Lines 354-367: one output row per row of the sheet and group, in that
\* order; a row names the columns its values come from.
RECURSIVE TransformedRows(_, _, _, _)
TransformedRows(filas, fixed_columns, groups, fila) ==
  IF fila > filas THEN <<>>
  ELSE [g \in 1..Len(groups) |->
          [fila |-> fila, fijas |-> fixed_columns,
           Columna_base |-> groups[g][1],
           Valor_A |-> groups[g][1],
           Valor_B |-> IF Len(groups[g]) = 2 THEN groups[g][2]
                       ELSE Etiqueta("NA")]]
       \o TransformedRows(filas, fixed_columns, groups, fila + 1)

\* The main program at rest while another window of the repository runs.
ProcesadorEnReposo ==
  /\ config = Config({}, <<>>, <<>>)
  /\ config_data = config
  /\ ui_tarifas = <<>>
  /\ pc = "reposo"
  /\ entrada = [df |-> <<>>, cols |-> {}]
  /\ df = <<>>
  /\ cols = {}
  /\ descuento_pos = <<>>
  /\ motivoLog = <<>>
  /\ error = ""
  /\ valor = NoneV
  /\ numero = NoneV
  /\ objeto = "llamador"
  /\ llamador = entrada
  /\ fallas = <<>>
  /\ archivo = <<>>

Procesador == <<config, config_data, ui_tarifas, pc, archivo>>

MaxColumnasPivot == 4

\* The header rows of the sheets: texts, or texts followed by a year that
\* the reader returns as a number.
Hojas ==
  {[i \in 1..MaxColumnasPivot |-> Etiqueta((<<"A", "B", "C", "D", "E">>)[i])],
   [i \in 1..MaxColumnasPivot |->
      IF i = MaxColumnasPivot THEN EtiquetaNumero("2020")
      ELSE Etiqueta((<<"A", "B", "C", "D", "E">>)[i])]}

\* Lines 51-68: no sheet is loaded.
InitPivot ==
  /\ pivot_app = [dataframe |-> FALSE, filas |-> 0, columns |-> <<>>,
                  fixed_vars |-> <<>>, pivot_vars |-> <<>>,
                  pair_vars |-> <<>>, resultado |-> <<>>, aviso |-> ""]
  /\ data_manager = <<>>
  /\ llamada = <<>>
  /\ ProcesadorEnReposo

\* load_excel (lines 113-147) and _populate_checkboxes (lines 149-196) on a
\* sheet that was read: a sheet without rows is refused.
LoadExcel ==
  /\ pivot_app # <<>>
  /\ \E hoja \in Hojas, filas \in 0..2 :
       pivot_app' =
         IF filas = 0
         THEN [pivot_app EXCEPT !.aviso = "Archivo vacío",
                                !.resultado = <<>>]
         ELSE [pivot_app EXCEPT
                 !.aviso = "",
                 !.resultado = <<>>,
                 !.dataframe = TRUE,
                 !.filas = filas,
                 !.columns = hoja,
                 !.fixed_vars = [c \in SeqRange(hoja) |-> FALSE],
                 !.pivot_vars = [c \in SeqRange(hoja) |-> FALSE],
                 !.pair_vars =
                   RefreshPairOptions(
                     hoja, [c \in SeqRange(hoja) |-> FALSE],
                     [c \in SeqRange(hoja) |-> "Ninguno"], 1)]
  /\ UNCHANGED <<data_manager, llamada>>
  /\ UNCHANGED Procesador
  /\ UNCHANGED Corrida

\* A click on a checkbox of the fixed columns (lines 164-168).
FixedToggle ==
  /\ pivot_app # <<>>
  /\ \E column \in SeqRange(pivot_app.columns) :
       pivot_app' = [pivot_app EXCEPT
                       !.aviso = "",
                       !.resultado = <<>>,
                       !.fixed_vars[column] = ~pivot_app.fixed_vars[column]]
  /\ UNCHANGED <<data_manager, llamada>>
  /\ UNCHANGED Procesador
  /\ UNCHANGED Corrida

\* A click on a checkbox of the pivot columns (lines 176-181, 203-217).
PivotToggle ==
  /\ pivot_app # <<>>
  /\ \E column \in SeqRange(pivot_app.columns) :
       \E pivot_vars \in {[pivot_app.pivot_vars EXCEPT
                            ![column] = ~pivot_app.pivot_vars[column]]} :
         pivot_app' = [pivot_app EXCEPT
                         !.aviso = "",
                         !.resultado = <<>>,
                         !.pivot_vars = pivot_vars,
                         !.pair_vars =
                           OnPivotToggle(pivot_app.columns, pivot_vars,
                                         pivot_app.pair_vars, column)]
  /\ UNCHANGED <<data_manager, llamada>>
  /\ UNCHANGED Procesador
  /\ UNCHANGED Corrida

\* The choice of an option of an enabled pairing menu (lines 273-287,
\* 259-263).
OptionMenuSelect ==
  /\ pivot_app # <<>>
  /\ \E column \in SeqRange(pivot_app.columns) :
       /\ pivot_app.pivot_vars[column]
       /\ \E selection \in SeqRange(Options(pivot_app.columns,
                                            pivot_app.pivot_vars, column)) :
            pivot_app' = [pivot_app EXCEPT
                            !.aviso = "",
                            !.resultado = <<>>,
                            !.pair_vars =
                              OnOptionMenuSelect(
                                pivot_app.columns, pivot_app.pivot_vars,
                                pivot_app.pair_vars, column, selection)]
  /\ UNCHANGED <<data_manager, llamada>>
  /\ UNCHANGED Procesador
  /\ UNCHANGED Corrida

\* Line 321.
FixedColumns(app) == SelectSeq(app.columns, LAMBDA c : app.fixed_vars[c])

\* Line 346.
Groups(app) ==
  BuildGroups(app.pair_vars,
              SelectedPivotColumns(app.columns, app.pivot_vars), 1, {})

\* A handler that ends with a message box and writes nothing.
Aviso(app, titulo) == [app EXCEPT !.aviso = titulo, !.resultado = <<>>]

\* generate_pivoted_file (lines 311-393): the message box it ends with,
\* and the rows it writes when the file can be written.
GeneratePivotedFile ==
  /\ pivot_app # <<>>
  /\ \E guardado \in BOOLEAN :
       pivot_app' =
         IF ~pivot_app.dataframe
         THEN Aviso(pivot_app, "Sin datos")
         ELSE IF FixedColumns(pivot_app) = <<>>
         THEN Aviso(pivot_app, "Selección incompleta")
         ELSE IF SelectedPivotColumns(pivot_app.columns,
                                      pivot_app.pivot_vars) = <<>>
         THEN Aviso(pivot_app, "Selección incompleta")
         ELSE IF SeqRange(FixedColumns(pivot_app))
                   \cap SeqRange(SelectedPivotColumns(
                                   pivot_app.columns,
                                   pivot_app.pivot_vars)) # {}
         THEN Aviso(pivot_app, "Selección inválida")
         ELSE IF Groups(pivot_app) = <<>>
         THEN Aviso(pivot_app, "Sin columnas")
         ELSE IF ~guardado
         THEN Aviso(pivot_app, "Error al guardar")
         ELSE [pivot_app EXCEPT
                 !.aviso = "Proceso completado",
                 !.resultado =
                   TransformedRows(pivot_app.filas, FixedColumns(pivot_app),
                                   Groups(pivot_app), 1)]
  /\ UNCHANGED <<data_manager, llamada>>
  /\ UNCHANGED Procesador
  /\ UNCHANGED Corrida

NextPivot ==
  \/ LoadExcel
  \/ FixedToggle
  \/ PivotToggle
  \/ OptionMenuSelect
  \/ GeneratePivotedFile

SpecPivot == InitPivot /\ [][NextPivot]_vars

\* The column whose menu text is the given one is paired back with a, is
\* another column, and both are pivot columns.
ParejaDe(app, a) ==
  \E b \in SeqRange(app.columns) :
    /\ b.texto = app.pair_vars[a]
    /\ app.pair_vars[b] = a.texto
    /\ a # b
    /\ app.pivot_vars[a]
    /\ app.pivot_vars[b]

\* C25: after any sequence of clicks on the pivot checkboxes and choices in
\* the pairing menus, a column paired with b (b other than "Ninguno") has b
\* paired with it, differs from b, both are pivot columns, and no column is
\* the partner of two columns.
C25_EmparejamientoConsistente ==
  pivot_app # <<>> =>
    /\ \A a \in SeqRange(pivot_app.columns) :
         pivot_app.pair_vars[a] # "Ninguno" => ParejaDe(pivot_app, a)
    /\ \A a, c \in SeqRange(pivot_app.columns) :
         (a # c /\ pivot_app.pair_vars[a] # "Ninguno")
           => pivot_app.pair_vars[a] # pivot_app.pair_vars[c]

\* The number of groups that hold a column.
GruposCon(groups, column) ==
  Cardinality({g \in 1..Len(groups) :
                 \E n \in 1..Len(groups[g]) : groups[g][n] = column})

\* The place in the sheet of the first column of a group.
PrimeraPosicion(columns, group) ==
  CHOOSE i \in 1..Len(columns) :
    /\ columns[i] \in SeqRange(group)
    /\ \A j \in 1..(i - 1) : columns[j] \notin SeqRange(group)

\* The groups are a partition of the selected pivot columns into groups of
\* one column or of two columns paired with each other, in the order in
\* which their columns first appear in the sheet.
EsParticion(app, groups) ==
  /\ \A c \in SeqRange(app.columns) :
       GruposCon(groups, c) = IF app.pivot_vars[c] THEN 1 ELSE 0
  /\ \A g \in 1..Len(groups) :
       /\ Len(groups[g]) \in {1, 2}
       /\ SeqRange(groups[g]) \subseteq SeqRange(app.columns)
       /\ Len(groups[g]) = 2 =>
            /\ groups[g][1] # groups[g][2]
            /\ app.pair_vars[groups[g][1]] = groups[g][2].texto
            /\ app.pair_vars[groups[g][2]] = groups[g][1].texto
  /\ \A g, h \in 1..Len(groups) :
       g < h => PrimeraPosicion(app.columns, groups[g])
                  < PrimeraPosicion(app.columns, groups[h])

\* C26: in every pairing state, each selected pivot column is in exactly
\* one group of _build_groups, a group has one or two columns, a group of
\* two holds columns paired with each other, the groups follow the first
\* appearance of their columns, and a file that was written holds (rows of
\* the sheet) x (number of groups) rows.
C26_GruposParticion ==
  (pivot_app # <<>> /\ pivot_app.dataframe) =>
    /\ EsParticion(pivot_app, Groups(pivot_app))
    /\ pivot_app.aviso = "Proceso completado" =>
         Len(pivot_app.resultado)
           = pivot_app.filas * Len(Groups(pivot_app))

\* A file was written from a sheet of two rows with a group of two columns
\* and a group of one column.
C26_Witness ==
  /\ pivot_app # <<>>
  /\ pivot_app.aviso = "Proceso completado"
  /\ pivot_app.filas = 2
  /\ Len(pivot_app.resultado) = 4
  /\ \E g, h \in 1..Len(Groups(pivot_app)) :
       /\ Len(Groups(pivot_app)[g]) = 2
       /\ Len(Groups(pivot_app)[h]) = 1

(***************************************************************************)
(* The records tool (DataManager, PLANILLAS.py).  A dict is a function     *)
(* from its keys to their values.                                          *)
(*   data_manager.records          the stored records, oldest first        *)
(*   data_manager.display_fields   the fields of the record list           *)
(*   data_manager.external_data    the rows of the external base           *)
(*   data_manager.external_key     <<>> for None, <<name>> for a name      *)
(*   data_manager.external_fields  the fields taken from the base          *)
(* llamada is the last call on the object, with its arguments.             *)
(***************************************************************************)

\* Lines 6-46: the first fields of the form.
FIELDS ==
  <<"ID", "Número Caso BE/ Radicado Cia/ Control", "No. De Poliza", "NIT",
    "Nombre Grupo Económico", "Nombre Cliente">>

\* dict.get(key, default).
DictGetOr(d, key, default) == IF key \in DOMAIN d THEN d[key] ELSE default

\* Lines 60-68: the rows of the base whose key value is that of the record,
\* of which next() takes the first.
Matches(external_data, key, key_value) ==
  SelectSeq(external_data, LAMBDA row : DictGetOr(row, key, "") = key_value)

\* A faulty crossing: the value of the base replaces that of the record.
RECURSIVE SetDefaultsSobrescribe(_, _, _, _)
SetDefaultsSobrescribe(record_copy, match, external_fields, i) ==
  IF i > Len(external_fields) THEN record_copy
  ELSE SetDefaultsSobrescribe(
         (external_fields[i] :> DictGetOr(match, external_fields[i], ""))
           @@ record_copy,
         match, external_fields, i + 1)

\* Lines 70-71: setdefault of every configured field, in order.
RECURSIVE SetDefaults(_, _, _, _)
SetDefaults(record_copy, match, external_fields, i) ==
  IF i > Len(external_fields) THEN record_copy
  ELSE SetDefaults(
         IF external_fields[i] \in DOMAIN record_copy THEN record_copy
         ELSE record_copy
                @@ (external_fields[i]
                      :> DictGetOr(match, external_fields[i], "")),
         match, external_fields, i + 1)

\* Lines 58-71: the copy add_record stores; a row that is an empty dict
\* does not pass the test of line 69.
RecordCopy(dm, record) ==
  IF dm.external_data # <<>> /\ dm.external_key \notin {<<>>, <<"">>}
  THEN With(Matches(dm.external_data, dm.external_key[1],
                    DictGetOr(record, dm.external_key[1], "")),
            LAMBDA found :
              IF found # <<>> /\ DOMAIN found[1] # {}
              THEN SetDefaults(record, found[1], dm.external_fields, 1)
              ELSE record)
  ELSE record

\* A faulty set_display_fields: the list is stored as given.
NewDisplayFieldsSinGuarda(display_fields, fields) == fields

\* Lines 74-76.
NewDisplayFields(display_fields, fields) ==
  IF fields # <<>> THEN fields ELSE display_fields

MaxRegistros == 2

\* The records the entry form passes (lines 141-147): every field of the
\* form with its stripped text, at least one of them filled.
Formularios ==
  {r \in {[f \in SeqRange(FIELDS) |->
             IF f = "ID" THEN id
             ELSE IF f = "Nombre Cliente" THEN nombre ELSE ""] :
            id \in {"", "1", "2"}, nombre \in {"", "Ada"}} :
     \E f \in DOMAIN r : r[f] # ""}

\* The csv files of the external bases: a header and rows of cells.  Two
\* rows of the first base share an ID and one row has none; the second base
\* has no ID column.
Bases ==
  {[header |-> <<"ID", "Ciudad", "Nombre Cliente">>,
    filas |-> <<(<<"1", "Cali", "Eva">>), (<<"1", "Tunja", "Eva">>),
                (<<"", "Pasto", "Ana">>)>>],
   [header |-> <<"NIT", "Ciudad">>, filas |-> <<(<<"", "Cali">>)>>]}

\* Lines 203-204: csv.DictReader gives one dict per row, keyed by the
\* columns of the header.
DictReader(base) ==
  [n \in 1..Len(base.filas) |->
     [c \in SeqRange(base.header) |->
        base.filas[n][CHOOSE i \in 1..Len(base.header) : base.header[i] = c]]]

\* The non-empty selections of a list box, in the order of the list.
SeleccionesDe(lista) ==
  {SelectSeq(lista, LAMBDA x : x \in S) : S \in SUBSET SeqRange(lista)}
    \ {<<>>}

\* Lines 50-55.
InitPlanillas ==
  /\ data_manager = [records |-> <<>>,
                     display_fields |-> SubSeq(FIELDS, 1, 5),
                     external_data |-> <<>>,
                     external_key |-> <<>>,
                     external_fields |-> <<>>]
  /\ llamada = <<>>
  /\ pivot_app = <<>>
  /\ ProcesadorEnReposo

\* add_record (lines 57-72) on a record of the entry form.
AddRecord ==
  /\ data_manager # <<>>
  /\ Len(data_manager.records) < MaxRegistros
  /\ \E record \in Formularios :
       /\ data_manager' =
            [data_manager EXCEPT
               !.records = Append(data_manager.records,
                                  RecordCopy(data_manager, record))]
       /\ llamada' = [op |-> "add_record", record |-> record]
  /\ UNCHANGED pivot_app
  /\ UNCHANGED Procesador
  /\ UNCHANGED Corrida

\* set_display_fields (lines 74-76) on a selection of the field list, or
\* on an empty list.
SetDisplayFields ==
  /\ data_manager # <<>>
  /\ \E fields \in {<<>>, <<"ID">>, <<"NIT", "Nombre Cliente">>} :
       /\ data_manager' =
            [data_manager EXCEPT
               !.display_fields =
                 NewDisplayFields(data_manager.display_fields, fields)]
       /\ llamada' = [op |-> "set_display_fields", fields |-> fields]
  /\ UNCHANGED pivot_app
  /\ UNCHANGED Procesador
  /\ UNCHANGED Corrida

\* set_external_configuration (lines 78-83) as save_configuration calls it
\* (lines 226-251): a base with rows, a key field of the form that is a
\* column of the base, and a selection of its columns.
SetExternalConfiguration ==
  /\ data_manager # <<>>
  /\ \E base \in Bases :
       \E data \in {DictReader(base)} :
         \E key_field \in SeqRange(FIELDS) \cap DOMAIN data[1],
            fields \in SeleccionesDe(base.header) :
           /\ data_manager' =
                [data_manager EXCEPT
                   !.external_key = <<key_field>>,
                   !.external_fields = fields,
                   !.external_data = data]
           /\ llamada' = [op |-> "set_external_configuration",
                          key_field |-> key_field, fields |-> fields]
  /\ UNCHANGED pivot_app
  /\ UNCHANGED Procesador
  /\ UNCHANGED Corrida

NextPlanillas == AddRecord \/ SetDisplayFields \/ SetExternalConfiguration

SpecPlanillas == InitPlanillas /\ [][NextPlanillas]_vars

\* The places of the external rows that have the key value of the record.
FilasConLlave(dm, record) ==
  {n \in 1..Len(dm.external_data) :
     /\ dm.external_key # <<>>
     /\ dm.external_key[1] \in DOMAIN dm.external_data[n]
     /\ dm.external_key[1] \in DOMAIN record
     /\ dm.external_data[n][dm.external_key[1]] = record[dm.external_key[1]]}

\* The first external row that has the key value of the record.
PrimeraFila(dm, record) ==
  dm.external_data[CHOOSE n \in FilasConLlave(dm, record) :
                     \A m \in FilasConLlave(dm, record) : n <= m]

\* stored is record, with the configured external fields it lacks taken
\* from the first external row of its key value, when there is one.
EsCopiaCruzada(dm, record, stored) ==
  /\ \A f \in DOMAIN record : f \in DOMAIN stored /\ stored[f] = record[f]
  /\ IF FilasConLlave(dm, record) # {}
     THEN /\ DOMAIN stored = DOMAIN record \cup SeqRange(dm.external_fields)
          /\ \A f \in SeqRange(dm.external_fields) \ DOMAIN record :
               stored[f] = PrimeraFila(dm, record)[f]
     ELSE DOMAIN stored = DOMAIN record

\* C29: add_record appends exactly one record and leaves the earlier ones
\* as they were; the stored record holds every field of the given record
\* with its given value, even an empty one, plus, when an external row has
\* its key value, each configured external field it lacks, taken from the
\* first such row.
C29_AddRecord ==
  [][(llamada' # <<>> /\ llamada'.op = "add_record") =>
       /\ Len(data_manager'.records) = Len(data_manager.records) + 1
       /\ SubSeq(data_manager'.records, 1, Len(data_manager.records))
            = data_manager.records
       /\ EsCopiaCruzada(data_manager, llamada'.record,
                         data_manager'.records[Len(data_manager'.records)])]_vars

\* A second record was added whose empty client name was kept although the
\* base has one, and whose city came from the first of two rows of its ID.
C29_Witness ==
  /\ llamada # <<>>
  /\ llamada.op = "add_record"
  /\ Len(data_manager.records) = 2
  /\ llamada.record["Nombre Cliente"] = ""
  /\ llamada.record["ID"] = "1"
  /\ data_manager.external_fields = <<"Ciudad", "Nombre Cliente">>
  /\ data_manager.external_key = <<"ID">>
  /\ data_manager.records[2]
       = llamada.record @@ ("Ciudad" :> "Cali")

\* C30: display_fields is never empty, so display_fields[0] exists after
\* any sequence of add_record, set_display_fields (also with an empty
\* list) and set_external_configuration calls.
C30_DisplayFieldsNoVacio ==
  data_manager # <<>> => Len(data_manager.display_fields) >= 1

\* set_display_fields was called with an empty list after another list had
\* been stored, and the stored list is still there.
C30_Witness ==
  /\ llamada # <<>>
  /\ llamada.op = "set_display_fields"
  /\ llamada.fields = <<>>
  /\ data_manager.display_fields = <<"NIT", "Nombre Cliente">>
  /\ data_manager.records # <<>>
  /\ data_manager.external_key # <<>>

====
